---- MODULE Spec2Model ----
(***************************************************************************)
(* Model of the Layout Synthesis Engine (layout3_working.py) and of the    *)
(* Envelope Builder (envelope_builder_mark2.py).                           *)
(*                                                                         *)
(* Lengths are integers counting 1/640 of a plan unit: every coordinate    *)
(* the code computes from inputs on the quarter-unit grid (halved centres, *)
(* halved corridor positions, door midpoints, grid snaps) is a multiple of *)
(* 1/128 that the binary floating point of the code represents exactly,    *)
(* and the factor 5 makes the wall offset of 0.3 a whole number too.       *)
(***************************************************************************)
EXTENDS Integers, Sequences, FiniteSets, TLC

Unit == 2^7 * 5

Half(v) == v \div 2

Abs(v) == IF v < 0 THEN -v ELSE v

Min2(a, b) == IF a <= b THEN a ELSE b

Max2(a, b) == IF a >= b THEN a ELSE b

\* Python's round(): num/den rounded to the nearest integer, ties to even.
RoundHalfEven(num, den) ==
  LET q == num \div den
      r == num % den
  IN  IF 2 * r < den THEN q
      ELSE IF 2 * r > den THEN q + 1
      ELSE IF q % 2 = 0 THEN q ELSE q + 1

Range(s) == {s[i] : i \in DOMAIN s}

\* Index of the first element of s satisfying P, 0 if none: next((...), None).
FirstIdx(s, P(_)) ==
  IF \E i \in DOMAIN s : P(s[i])
  THEN CHOOSE i \in DOMAIN s : P(s[i]) /\ \A j \in 1..(i - 1) : ~P(s[j])
  ELSE 0

(***************************************************************************)
(* Room                                                                    *)
(***************************************************************************)
\* "master" in name.lower(), "foyer" in name.lower(), "common" in name.lower()
MasterNames == {"Master Bedroom", "Master Bathroom"}

FoyerNames == {"Foyer"}

CommonNames == {"Common Bathroom"}

HasMaster(r) == r.name \in MasterNames

HasFoyer(r) == r.name \in FoyerNames

HasCommon(r) == r.name \in CommonNames

Room(id, name, purpose, w, h, zone, adjacency) ==
  [room_id |-> id, name |-> name, purpose |-> purpose, width |-> w,
   height |-> h, zone |-> zone, adjacency |-> adjacency,
   x |-> 0, y |-> 0, locked |-> FALSE, priority |-> 0]

\* (x1, y1, x2, y2)
bounds(r) == <<r.x, r.y, r.x + r.width, r.y + r.height>>

center(r) == <<r.x + Half(r.width), r.y + Half(r.height)>>

area(r) == r.width * r.height

MAX_CORRIDOR_LEN == 12 * Unit

make_corridor(room_a, room_b, width) ==
  LET ax == center(room_a)[1]
      ay == center(room_a)[2]
      bx == center(room_b)[1]
      by == center(room_b)[2]
      horiz == Abs(ax - bx) > Abs(ay - by)
      length == IF horiz THEN Min2(Abs(ax - bx), MAX_CORRIDOR_LEN)
                ELSE Min2(Abs(ay - by), MAX_CORRIDOR_LEN)
      cx == IF horiz THEN Min2(ax, bx) ELSE Half(ax + bx) - Half(width)
      cy == IF horiz THEN Half(ay + by) - Half(width) ELSE Min2(ay, by)
      w == IF horiz THEN length ELSE width
      h == IF horiz THEN width ELSE length
  IN  [Room("corridor_" \o room_a.room_id \o "_" \o room_b.room_id, "Corridor",
            "circulation", w, h, "circulation", <<>>)
       EXCEPT !.x = cx, !.y = cy]

IsLiving(r) == r.purpose = "living"

IsKitchen(r) == r.purpose = "kitchen"

IsMasterBed(r) == r.purpose = "bedroom" /\ HasMaster(r)

IsMasterBath(r) == r.purpose = "bathroom" /\ HasMaster(r)

IsCommonBath(r) == r.purpose = "bathroom" /\ HasCommon(r)

IsKidRoom(r) == r.purpose = "bedroom" /\ ~HasMaster(r)

(***************************************************************************)
(* ImprovedZonePlacer, constructed with plot 40 x 40 and setbacks of 5     *)
(***************************************************************************)
PLOT == 40 * Unit

SETBACK == 5 * Unit

PlacerX0 == SETBACK

PlacerY0 == SETBACK

PlacerW == PLOT - SETBACK - SETBACK

PlacerH == PLOT - SETBACK - SETBACK

PriorityOf(r) ==
  IF r.purpose = "living" THEN 100
  ELSE IF r.purpose = "bedroom" /\ HasMaster(r) THEN 90
  ELSE IF r.purpose = "bathroom" /\ HasMaster(r) THEN 85
  ELSE IF r.purpose = "kitchen" THEN 80
  ELSE IF r.purpose = "bedroom" THEN 70
  ELSE IF r.purpose = "bathroom" THEN 65
  ELSE IF HasFoyer(r) THEN 95
  ELSE 50

\* Number of kids rooms before index i: the i of enumerate(kids_rooms).
KidRank(rs, i) == Cardinality({j \in 1..(i - 1) : IsKidRoom(rs[j])})

SetPriorities(rs) == [i \in DOMAIN rs |-> [rs[i] EXCEPT !.priority = PriorityOf(rs[i])]]

\* Living room at the origin corner.
PlaceLiving(rs) ==
  LET li == FirstIdx(rs, IsLiving)
  IN  IF li # 0
      THEN [rs EXCEPT ![li].x = PlacerX0 + Unit, ![li].y = PlacerY0 + Unit]
      ELSE rs

\* Foyer at the origin corner, the living room pushed to its right.
PlaceFoyerAt(rs) ==
  LET fo == FirstIdx(rs, HasFoyer)
  IN  [rs EXCEPT ![fo].x = PlacerX0 + Unit, ![fo].y = PlacerY0 + Unit]

PlaceFoyer(rs) ==
  LET li == FirstIdx(rs, IsLiving)
      fo == FirstIdx(rs, HasFoyer)
      placed == PlaceFoyerAt(rs)
  IN  IF fo # 0 /\ li # 0
      THEN [placed EXCEPT ![li].x = placed[fo].x + placed[fo].width + Unit]
      ELSE rs

PlaceKitchen(rs) ==
  LET li == FirstIdx(rs, IsLiving)
      fo == FirstIdx(rs, HasFoyer)
      ki == FirstIdx(rs, IsKitchen)
  IN  IF ki = 0 THEN rs
      ELSE IF fo # 0
      THEN [rs EXCEPT ![ki].x = rs[fo].x, ![ki].y = rs[fo].y + rs[fo].height + Unit]
      ELSE IF li # 0
      THEN [rs EXCEPT ![ki].x = rs[li].x, ![ki].y = rs[li].y + rs[li].height + Unit]
      ELSE [rs EXCEPT ![ki].x = PlacerX0 + Unit, ![ki].y = PlacerY0 + Unit]

PlaceCommonBath(rs) ==
  LET li == FirstIdx(rs, IsLiving)
      cb == FirstIdx(rs, IsCommonBath)
  IN  IF cb # 0 /\ li # 0
      THEN [rs EXCEPT ![cb].x = rs[li].x + rs[li].width + Half(Unit),
                      ![cb].y = rs[li].y + 2 * Unit]
      ELSE rs

PlaceMasterBed(rs) ==
  LET ki == FirstIdx(rs, IsKitchen)
      mb == FirstIdx(rs, IsMasterBed)
  IN  IF mb = 0 THEN rs
      ELSE IF ki # 0
      THEN [rs EXCEPT ![mb].x = PlacerX0 + Unit,
                      ![mb].y = rs[ki].y + rs[ki].height + 2 * Unit]
      ELSE [rs EXCEPT ![mb].x = PlacerX0 + Unit, ![mb].y = PlacerY0 + Half(PlacerH)]

PlaceMasterBath(rs) ==
  LET mb == FirstIdx(rs, IsMasterBed)
      ba == FirstIdx(rs, IsMasterBath)
  IN  IF ba # 0 /\ mb # 0
      THEN [rs EXCEPT ![ba].x = rs[mb].x,
                      ![ba].y = rs[mb].y + rs[mb].height + Half(Unit),
                      ![ba].locked = TRUE]
      ELSE rs

PlaceKids(rs) ==
  LET mb == FirstIdx(rs, IsMasterBed)
  IN  IF mb # 0
      THEN [i \in DOMAIN rs |->
             IF IsKidRoom(rs[i])
             THEN [rs[i] EXCEPT !.x = rs[mb].x + rs[mb].width + Unit + Half(Unit),
                                !.y = rs[mb].y + KidRank(rs, i) * (rs[i].height + Unit)]
             ELSE rs[i]]
      ELSE rs

place(rs) ==
  PlaceKids(PlaceMasterBath(PlaceMasterBed(PlaceCommonBath(
    PlaceKitchen(PlaceFoyer(PlaceLiving(SetPriorities(rs))))))))

(***************************************************************************)
(* StrictAdjacencyRefiner                                                  *)
(***************************************************************************)
GRID == Half(Unit)

MIN_SHARED_WALL == 2 * Unit + Half(Unit)

ATTACH_GAP == Half(Unit)

\* The buildable bounds generate_layout passes to every phase: (5, 5, 35, 35).
BOUNDS == <<5 * Unit, 5 * Unit, 35 * Unit, 35 * Unit>>

_snap_to_grid(v) == RoundHalfEven(v, GRID) * GRID

_snap_room_to_grid(r) == [r EXCEPT !.x = _snap_to_grid(r.x), !.y = _snap_to_grid(r.y)]

_inside_bounds(r, bnds) ==
  /\ bnds[1] <= r.x
  /\ bnds[2] <= r.y
  /\ r.x + r.width <= bnds[3]
  /\ r.y + r.height <= bnds[4]

_overlap(a, b) ==
  ~(a.x + a.width <= b.x \/ a.x >= b.x + b.width
    \/ a.y + a.height <= b.y \/ a.y >= b.y + b.height)

\* mover is rooms[mi] moved to a candidate place; rooms[mi] and the anchor are skipped.
_overlaps_any(mover, mi, rooms, ai) ==
  \E k \in DOMAIN rooms : k # mi /\ k # ai /\ _overlap(mover, rooms[k])

_wall_overlap(a, b, side) ==
  IF side \in {"left", "right"}
  THEN Min2(a.y + a.height, b.y + b.height) - Max2(a.y, b.y)
  ELSE IF side \in {"top", "bottom"}
  THEN Min2(a.x + a.width, b.x + b.width) - Max2(a.x, b.x)
  ELSE 0

_manhattan(a, b) ==
  Abs(center(a)[1] - center(b)[1]) + Abs(center(a)[2] - center(b)[2])

Sides == <<"right", "left", "top", "bottom">>

\* EDGE_MAP.get(edge.get("edge_preference")); "none" stands for None.
PreferredSide(edge) ==
  CASE edge.edge_preference = "front" -> "top"
    [] edge.edge_preference = "rear" -> "bottom"
    [] edge.edge_preference = "left" -> "left"
    [] edge.edge_preference = "right" -> "right"
    [] OTHER -> "none"

\* The candidate position of the mover on one side of the anchor.
Candidate(anchor, mover, side) ==
  CASE side = "right" -> <<anchor.x + anchor.width + ATTACH_GAP, anchor.y>>
    [] side = "left" -> <<anchor.x - mover.width - ATTACH_GAP, anchor.y>>
    [] side = "top" -> <<anchor.x, anchor.y - mover.height - ATTACH_GAP>>
    [] side = "bottom" -> <<anchor.x, anchor.y + anchor.height + ATTACH_GAP>>

\* Tuple order of Python on (score, x, y).
TupleLess(s, t) ==
  \/ s[1] < t[1]
  \/ s[1] = t[1] /\ s[2] < t[2]
  \/ s[1] = t[1] /\ s[2] = t[2] /\ s[3] < t[3]

\* The (score, x, y) entries of the candidates that survive the three tests.
\* The anchor is read after the mover has been moved (they are one object
\* when an edge points at its own room).
ScoredSnaps(rooms, ai, mi, bnds, edge) ==
  { <<sc, c[1], c[2]>> :
      <<sc, c>> \in
        { <<(LET m == [rooms[mi] EXCEPT !.x = Candidate(rooms[ai], rooms[mi], side)[1],
                                       !.y = Candidate(rooms[ai], rooms[mi], side)[2]]
                 a == IF ai = mi THEN m ELSE rooms[ai]
                 ov == _wall_overlap(a, m, side)
             IN  ov * 100 - _manhattan(a, m) * 2
                 + (IF PreferredSide(edge) = side THEN ov * 100 ELSE 0)),
            Candidate(rooms[ai], rooms[mi], side)>> :
          side \in { sd \in Range(Sides) :
             LET m == [rooms[mi] EXCEPT !.x = Candidate(rooms[ai], rooms[mi], sd)[1],
                                        !.y = Candidate(rooms[ai], rooms[mi], sd)[2]]
                 a == IF ai = mi THEN m ELSE rooms[ai]
             IN  /\ _inside_bounds(m, bnds)
                 /\ ~_overlaps_any(m, mi, rooms, ai)
                 /\ _wall_overlap(a, m, sd) >= MIN_SHARED_WALL } } }

\* <<found, x, y>>: the best snap position, snapped to the grid, or none.
_best_snap(rooms, ai, mi, bnds, edge) ==
  LET scored == ScoredSnaps(rooms, ai, mi, bnds, edge)
  IN  IF scored = {} THEN <<FALSE, 0, 0>>
      ELSE LET best == CHOOSE s \in scored : \A t \in scored : ~TupleLess(s, t)
           IN  <<TRUE, _snap_to_grid(best[2]), _snap_to_grid(best[3])>>

\* room_map.get(id): the index of the room the dict keeps for id (the last), 0 for None.
RoomIdx(rooms, id) ==
  IF \E i \in DOMAIN rooms : rooms[i].room_id = id
  THEN CHOOSE i \in DOMAIN rooms :
         rooms[i].room_id = id /\ \A j \in (i + 1)..Len(rooms) : rooms[j].room_id # id
  ELSE 0

AttachPriority(anchor, target) ==
  IF target.purpose = "bathroom" /\ anchor.purpose = "bedroom" THEN 80
  ELSE IF {anchor.purpose, target.purpose} = {"kitchen", "living"} THEN 70
  ELSE IF target.purpose = "bathroom" /\ anchor.purpose = "living" THEN 75
  ELSE 50

\* The attachments one anchor contributes: <<priority, anchor, target, edge>>.
AnchorAttachments(rooms, ai) ==
  LET adj == rooms[ai].adjacency
      Keep(e) == /\ e.type = "attach"
                 /\ RoomIdx(rooms, e.to) # 0
                 /\ ~IsMasterBath(rooms[RoomIdx(rooms, e.to)])
      kept == SelectSeq(adj, Keep)
  IN  [k \in DOMAIN kept |->
        <<AttachPriority(rooms[ai], rooms[RoomIdx(rooms, kept[k].to)]),
          ai, RoomIdx(rooms, kept[k].to), kept[k]>>]

RECURSIVE AttachmentsFrom(_, _)
AttachmentsFrom(rooms, ai) ==
  IF ai > Len(rooms) THEN <<>>
  ELSE AnchorAttachments(rooms, ai) \o AttachmentsFrom(rooms, ai + 1)

\* attachments.sort(key=priority, reverse=True): stable, so equal priorities keep their order.
SortedAttachments(rooms) ==
  LET all == AttachmentsFrom(rooms, 1)
      P80(t) == t[1] = 80
      P75(t) == t[1] = 75
      P70(t) == t[1] = 70
      P50(t) == t[1] = 50
  IN  SelectSeq(all, P80) \o SelectSeq(all, P75) \o SelectSeq(all, P70) \o SelectSeq(all, P50)

\* One attachment processed: the target moved to its best snap, or left alone.
SnapOne(rooms, att, bnds) ==
  LET ai == att[2]
      ti == att[3]
      best == _best_snap(rooms, ai, ti, bnds, att[4])
  IN  IF rooms[ai].purpose = "circulation" \/ rooms[ti].purpose = "circulation" THEN rooms
      ELSE IF rooms[ti].locked THEN rooms
      ELSE IF best[1] THEN [rooms EXCEPT ![ti].x = best[2], ![ti].y = best[3]]
      ELSE rooms

RECURSIVE ApplySnaps(_, _, _, _)
ApplySnaps(rooms, atts, k, bnds) ==
  IF k > Len(atts) THEN rooms
  ELSE ApplySnaps(SnapOne(rooms, atts[k], bnds), atts, k + 1, bnds)

\* The master bathroom forced to the right of the master bedroom and locked.
ForceMasterPair(rooms) ==
  LET mb == FirstIdx(rooms, IsMasterBed)
      ba == FirstIdx(rooms, IsMasterBath)
  IN  IF mb # 0 /\ ba # 0
      THEN [rooms EXCEPT ![ba].x = rooms[mb].x + rooms[mb].width + Half(Unit),
                         ![ba].y = rooms[mb].y,
                         ![ba].locked = TRUE]
      ELSE rooms

\* One iteration of the loop of refine.
RefineIteration(rooms, bnds) ==
  LET forced == ForceMasterPair(rooms)
  IN  ApplySnaps(forced, SortedAttachments(forced), 1, bnds)

\* The snap of every room that ends refine.
SnapAll(rooms) == [i \in DOMAIN rooms |-> _snap_room_to_grid(rooms[i])]

(***************************************************************************)
(* StrictOverlapResolver                                                   *)
(***************************************************************************)
CLEARANCE == Unit

MAX_ITERS == 200

_overlaps(a, b) ==
  ~(a.x + a.width <= b.x \/ a.x >= b.x + b.width
    \/ a.y + a.height <= b.y \/ a.y >= b.y + b.height)

\* A master pair test that takes a for the bedroom and b for the bathroom.
IsMasterPairInOrder(a, b) ==
  HasMaster(a) /\ HasMaster(b) /\ a.purpose = "bedroom" /\ b.purpose = "bathroom"

_is_master_pair(a, b) ==
  HasMaster(a) /\ HasMaster(b) /\ {a.purpose, b.purpose} = {"bedroom", "bathroom"}

\* A push that lands the mover flush against the anchor, with no clearance.
PushAwayFlush(mover, anchor) ==
  LET ax1 == anchor.x
      ay1 == anchor.y
      ax2 == anchor.x + anchor.width
      ay2 == anchor.y + anchor.height
      dx_left == ax2 - mover.x
      dx_right == mover.x + mover.width - ax1
      dy_down == ay2 - mover.y
      dy_up == mover.y + mover.height - ay1
      min_overlap == Min2(Min2(dx_left, dx_right), Min2(dy_down, dy_up))
  IN  IF min_overlap = dx_left THEN [mover EXCEPT !.x = ax2]
      ELSE IF min_overlap = dx_right THEN [mover EXCEPT !.x = ax1 - mover.width]
      ELSE IF min_overlap = dy_down THEN [mover EXCEPT !.y = ay2]
      ELSE [mover EXCEPT !.y = ay1 - mover.height]

\* The mover after _push_away(mover, anchor).
_push_away(mover, anchor) ==
  LET ax1 == anchor.x
      ay1 == anchor.y
      ax2 == anchor.x + anchor.width
      ay2 == anchor.y + anchor.height
      dx_left == ax2 - mover.x
      dx_right == mover.x + mover.width - ax1
      dy_down == ay2 - mover.y
      dy_up == mover.y + mover.height - ay1
      min_overlap == Min2(Min2(dx_left, dx_right), Min2(dy_down, dy_up))
  IN  IF min_overlap = dx_left THEN [mover EXCEPT !.x = ax2 + CLEARANCE]
      ELSE IF min_overlap = dx_right THEN [mover EXCEPT !.x = ax1 - mover.width - CLEARANCE]
      ELSE IF min_overlap = dy_down THEN [mover EXCEPT !.y = ay2 + CLEARANCE]
      ELSE [mover EXCEPT !.y = ay1 - mover.height - CLEARANCE]

\* <<resolved, a, b>> after _apply_rules(a, b).
_apply_rules(a, b) ==
  IF a.purpose = "kitchen" /\ b.purpose = "bedroom"
  THEN <<TRUE, a, [b EXCEPT !.y = a.y + a.height + CLEARANCE]>>
  ELSE IF b.purpose = "kitchen" /\ a.purpose = "bedroom"
  THEN <<TRUE, [a EXCEPT !.y = b.y + b.height + CLEARANCE], b>>
  ELSE IF a.purpose = "living"
  THEN <<TRUE, a, IF ~a.locked THEN _push_away(b, a) ELSE b>>
  ELSE IF b.purpose = "living"
  THEN <<TRUE, IF ~b.locked THEN _push_away(a, b) ELSE a, b>>
  ELSE IF a.purpose = "kitchen" THEN <<TRUE, a, _push_away(b, a)>>
  ELSE IF b.purpose = "kitchen" THEN <<TRUE, _push_away(a, b), b>>
  ELSE IF HasFoyer(a) THEN <<TRUE, a, _push_away(b, a)>>
  ELSE IF HasFoyer(b) THEN <<TRUE, _push_away(a, b), b>>
  ELSE <<FALSE, a, b>>

\* <<a, b>> after _separate_by_priority(a, b), which always returns True.
_separate_by_priority(a, b) ==
  IF a.locked THEN <<a, _push_away(b, a)>>
  ELSE IF b.locked THEN <<_push_away(a, b), b>>
  ELSE IF a.priority > b.priority THEN <<a, _push_away(b, a)>>
  ELSE IF b.priority > a.priority THEN <<_push_away(a, b), b>>
  ELSE IF area(a) <= area(b) THEN <<_push_away(a, b), b>>
  ELSE <<a, _push_away(b, a)>>

\* A pair handling that does not count the pairs it skips.
HandlePairSkipsUncounted(ps, i, j) ==
  LET a == ps.rooms[i]
      b == ps.rooms[j]
      ruled == _apply_rules(a, b)
      sep == _separate_by_priority(a, b)
  IN  IF ~_overlaps(a, b) THEN ps
      ELSE IF (a.purpose = "circulation" /\ b.purpose = "circulation")
              \/ (a.locked /\ b.locked)
              \/ _is_master_pair(a, b)
      THEN ps
      ELSE IF ruled[1]
      THEN [rooms |-> [ps.rooms EXCEPT ![i] = ruled[2], ![j] = ruled[3]],
            changed |-> TRUE, overlaps_found |-> ps.overlaps_found + 1]
      ELSE [rooms |-> [ps.rooms EXCEPT ![i] = sep[1], ![j] = sep[2]],
            changed |-> TRUE, overlaps_found |-> ps.overlaps_found + 1]

\* The body of the inner loop of resolve for the pair (i, j), on the pass state
\* ps = [rooms, changed, overlaps_found].
HandlePair(ps, i, j) ==
  LET a == ps.rooms[i]
      b == ps.rooms[j]
      ruled == _apply_rules(a, b)
      sep == _separate_by_priority(a, b)
  IN  IF ~_overlaps(a, b) THEN ps
      ELSE IF (a.purpose = "circulation" /\ b.purpose = "circulation")
              \/ (a.locked /\ b.locked)
              \/ _is_master_pair(a, b)
      THEN [ps EXCEPT !.overlaps_found = @ + 1]
      ELSE IF ruled[1]
      THEN [rooms |-> [ps.rooms EXCEPT ![i] = ruled[2], ![j] = ruled[3]],
            changed |-> TRUE, overlaps_found |-> ps.overlaps_found + 1]
      ELSE [rooms |-> [ps.rooms EXCEPT ![i] = sep[1], ![j] = sep[2]],
            changed |-> TRUE, overlaps_found |-> ps.overlaps_found + 1]

RECURSIVE PassFrom(_, _, _)
PassFrom(ps, i, j) ==
  IF i > Len(ps.rooms) THEN ps
  ELSE IF j > Len(ps.rooms) THEN PassFrom(ps, i + 1, i + 2)
  ELSE PassFrom(HandlePair(ps, i, j), i, j + 1)

\* One pass of resolve over all pairs i < j.
ResolvePass(rooms) ==
  PassFrom([rooms |-> rooms, changed |-> FALSE, overlaps_found |-> 0], 1, 2)

(***************************************************************************)
(* CorridorInserter, CorridorMerger                                        *)
(***************************************************************************)
\* CorridorInserter._is_adjacent with its default tol = 1.0
_is_adjacent(a, b) ==
  LET tol == Unit
  IN  IF Abs(a.x + a.width - b.x) < tol \/ Abs(a.x - (b.x + b.width)) < tol
      THEN Min2(a.y + a.height, b.y + b.height) - Max2(a.y, b.y) > Unit
      ELSE IF Abs(a.y + a.height - b.y) < tol \/ Abs(a.y - (b.y + b.height)) < tol
      THEN Min2(a.x + a.width, b.x + b.width) - Max2(a.x, b.x) > Unit
      ELSE FALSE

\* The loop of insert from edge k of room i on, on st = [corridors, seen_pairs];
\* a pair is the set of its two ids, as tuple(sorted(..)) identifies it.
RECURSIVE InsertFrom(_, _, _, _)
InsertFrom(rooms, st, i, k) ==
  IF i > Len(rooms) THEN st
  ELSE IF k > Len(rooms[i].adjacency) THEN InsertFrom(rooms, st, i + 1, 1)
  ELSE LET edge == rooms[i].adjacency[k]
           ti == RoomIdx(rooms, edge.to)
           pair == {rooms[i].room_id, edge.to}
       IN  IF edge.type = "near" THEN InsertFrom(rooms, st, i, k + 1)
           ELSE IF ti = 0 THEN InsertFrom(rooms, st, i, k + 1)
           ELSE IF _is_adjacent(rooms[i], rooms[ti]) THEN InsertFrom(rooms, st, i, k + 1)
           ELSE IF pair \in st.seen_pairs THEN InsertFrom(rooms, st, i, k + 1)
           ELSE InsertFrom(rooms,
                  [corridors |-> Append(st.corridors,
                                        make_corridor(rooms[i], rooms[ti], 4 * Unit)),
                   seen_pairs |-> st.seen_pairs \cup {pair}],
                  i, k + 1)

insert(rooms) ==
  LET li == FirstIdx(rooms, IsLiving)
      mb == FirstIdx(rooms, IsMasterBed)
      first == IF li # 0 /\ mb # 0
               THEN <<make_corridor(rooms[li], rooms[mb], 5 * Unit)>>
               ELSE <<>>
  IN  rooms \o InsertFrom(rooms, [corridors |-> first, seen_pairs |-> {}], 1, 1).corridors

\* CorridorMerger._can_merge with its default tol = 0.5
_can_merge(a, b) ==
  LET tol == Half(Unit)
  IN  IF a.purpose # "circulation" \/ b.purpose # "circulation" THEN FALSE
      ELSE IF Abs(a.x - b.x) < tol /\ Abs(a.x + a.width - (b.x + b.width)) < tol
      THEN ~(a.y + a.height < b.y \/ b.y + b.height < a.y)
      ELSE IF Abs(a.y - b.y) < tol /\ Abs(a.y + a.height - (b.y + b.height)) < tol
      THEN ~(a.x + a.width < b.x \/ b.x + b.width < a.x)
      ELSE FALSE

RECURSIVE MinOver(_, _, _)
MinOver(s, F(_), v) == IF s = <<>> THEN v ELSE MinOver(Tail(s), F, Min2(v, F(Head(s))))

RECURSIVE MaxOver(_, _, _)
MaxOver(s, F(_), v) == IF s = <<>> THEN v ELSE MaxOver(Tail(s), F, Max2(v, F(Head(s))))

\* A merge loop without the 4 x 4 floor: absorbed corridors are unioned into
\* the base and the box is kept as it comes out.
RECURSIVE MergeLoopNoFloor(_, _)
MergeLoopNoFloor(corridors, merged) ==
  IF corridors = <<>> THEN merged
  ELSE LET base == Head(corridors)
           Absorbed(c) == _can_merge(base, c)
           Kept(c) == ~_can_merge(base, c)
           X1(c) == c.x
           Y1(c) == c.y
           X2(c) == c.x + c.width
           Y2(c) == c.y + c.height
           taken == SelectSeq(Tail(corridors), Absorbed)
           bx1 == MinOver(taken, X1, base.x)
           by1 == MinOver(taken, Y1, base.y)
           bx2 == MaxOver(taken, X2, base.x + base.width)
           by2 == MaxOver(taken, Y2, base.y + base.height)
       IN  MergeLoopNoFloor(SelectSeq(Tail(corridors), Kept),
                            Append(merged, [base EXCEPT !.x = bx1, !.y = by1,
                                                        !.width = bx2 - bx1,
                                                        !.height = by2 - by1]))

\* A merge loop that keeps the first corridor and drops the others.
MergeLoopFirstOnly(corridors, merged) ==
  IF corridors = <<>> THEN merged ELSE Append(merged, Head(corridors))

\* The outer while loop of merge: base is popped, every later corridor that
\* _can_merge with base as it stood when popped is absorbed into the box.
RECURSIVE MergeLoop(_, _)
MergeLoop(corridors, merged) ==
  IF corridors = <<>> THEN merged
  ELSE LET base == Head(corridors)
           Absorbed(c) == _can_merge(base, c)
           Kept(c) == ~_can_merge(base, c)
           X1(c) == c.x
           Y1(c) == c.y
           X2(c) == c.x + c.width
           Y2(c) == c.y + c.height
           taken == SelectSeq(Tail(corridors), Absorbed)
           bx1 == MinOver(taken, X1, base.x)
           by1 == MinOver(taken, Y1, base.y)
           bx2 == MaxOver(taken, X2, base.x + base.width)
           by2 == MaxOver(taken, Y2, base.y + base.height)
       IN  MergeLoop(SelectSeq(Tail(corridors), Kept),
                     Append(merged, [base EXCEPT !.x = bx1, !.y = by1,
                                                 !.width = Max2(bx2 - bx1, 4 * Unit),
                                                 !.height = Max2(by2 - by1, 4 * Unit)]))

merge(rooms) ==
  LET IsCirc(r) == r.purpose = "circulation"
      NotCirc(r) == r.purpose # "circulation"
  IN  SelectSeq(rooms, NotCirc) \o MergeLoop(SelectSeq(rooms, IsCirc), <<>>)

(***************************************************************************)
(* DoorPlacer                                                              *)
(***************************************************************************)
\* <<found, orientation, x, y>> with the default tol = 0.2
_shared_wall(a, b) ==
  LET tol5 == Unit          \* 5 * tol
      ax1 == a.x
      ay1 == a.y
      ax2 == a.x + a.width
      ay2 == a.y + a.height
      bx1 == b.x
      by1 == b.y
      bx2 == b.x + b.width
      by2 == b.y + b.height
      ovy == Min2(ay2, by2) - Max2(ay1, by1)
      ovx == Min2(ax2, bx2) - Max2(ax1, bx1)
  IN  IF 5 * Abs(ax2 - bx1) < tol5 /\ ovy > 2 * Unit
      THEN <<TRUE, "vertical", ax2, Max2(ay1, by1) + Half(ovy)>>
      ELSE IF 5 * Abs(ax1 - bx2) < tol5 /\ ovy > 2 * Unit
      THEN <<TRUE, "vertical", ax1, Max2(ay1, by1) + Half(ovy)>>
      ELSE IF 5 * Abs(ay2 - by1) < tol5 /\ ovx > 2 * Unit
      THEN <<TRUE, "horizontal", Max2(ax1, bx1) + Half(ovx), ay2>>
      ELSE IF 5 * Abs(ay1 - by2) < tol5 /\ ovx > 2 * Unit
      THEN <<TRUE, "horizontal", Max2(ax1, bx1) + Half(ovx), ay1>>
      ELSE <<FALSE, "none", 0, 0>>

\* The doors of the pair (i, j), i < j: a sequence of zero or one door.
PairDoor(rooms, i, j) ==
  LET a == rooms[i]
      b == rooms[j]
      wall == _shared_wall(a, b)
  IN  IF ~wall[1] THEN <<>>
      ELSE IF a.zone = "private" /\ b.zone = "private"
              /\ ~(a.purpose = "bathroom" \/ b.purpose = "bathroom")
      THEN <<>>
      ELSE IF a.purpose = "circulation" /\ b.purpose = "circulation" THEN <<>>
      ELSE <<[from_room |-> a.room_id, to_room |-> b.room_id,
              x |-> wall[3], y |-> wall[4], orientation |-> wall[2]]>>

RECURSIVE DoorsFrom(_, _, _)
DoorsFrom(rooms, i, j) ==
  IF i > Len(rooms) THEN <<>>
  ELSE IF j > Len(rooms) THEN DoorsFrom(rooms, i + 1, i + 2)
  ELSE PairDoor(rooms, i, j) \o DoorsFrom(rooms, i, j + 1)

DoorPlacer_place(rooms) == DoorsFrom(rooms, 1, 2)

(***************************************************************************)
(* Expansion, clamp, polish, score                                         *)
(***************************************************************************)
RESIZE_STEP == Half(Unit)

\* can_expand(room, rooms, bounds, dx, dy, clearance=0.5, allow_into_circulation)
\* An expansion test that looks at the bounds only.
CanExpandInBounds(rooms, ri, bnds, dx, dy, allow_into_circulation) ==
  ~(rooms[ri].x < bnds[1] \/ rooms[ri].y < bnds[2]
    \/ rooms[ri].x + rooms[ri].width + dx > bnds[3]
    \/ rooms[ri].y + rooms[ri].height + dy > bnds[4])

can_expand(rooms, ri, bnds, dx, dy, allow_into_circulation) ==
  LET clearance == Half(Unit)
      x1 == rooms[ri].x
      y1 == rooms[ri].y
      x2 == rooms[ri].x + rooms[ri].width + dx
      y2 == rooms[ri].y + rooms[ri].height + dy
  IN  IF x1 < bnds[1] \/ y1 < bnds[2] \/ x2 > bnds[3] \/ y2 > bnds[4] THEN FALSE
      ELSE \A k \in DOMAIN rooms :
             \/ k = ri
             \/ allow_into_circulation /\ rooms[k].purpose = "circulation"
             \/ x2 + clearance <= rooms[k].x
             \/ x1 >= rooms[k].x + rooms[k].width + clearance
             \/ y2 + clearance <= rooms[k].y
             \/ y1 >= rooms[k].y + rooms[k].height + clearance

MaxSteps(r) ==
  IF r.purpose = "living" THEN 30
  ELSE IF r.purpose = "kitchen" THEN 18
  ELSE IF r.purpose = "bedroom" /\ HasMaster(r) THEN 20
  ELSE IF r.purpose = "bedroom" THEN 15
  ELSE 10

RECURSIVE GrowWidth(_, _, _, _)
GrowWidth(rooms, ri, bnds, steps) ==
  IF steps = 0 THEN rooms
  ELSE IF can_expand(rooms, ri, bnds, RESIZE_STEP, 0, FALSE)
  THEN GrowWidth([rooms EXCEPT ![ri].width = @ + RESIZE_STEP], ri, bnds, steps - 1)
  ELSE rooms

RECURSIVE GrowHeight(_, _, _, _)
GrowHeight(rooms, ri, bnds, steps) ==
  IF steps = 0 THEN rooms
  ELSE IF can_expand(rooms, ri, bnds, 0, RESIZE_STEP, FALSE)
  THEN GrowHeight([rooms EXCEPT ![ri].height = @ + RESIZE_STEP], ri, bnds, steps - 1)
  ELSE rooms

\* The body of the expansion loop for one room.
ExpandRoom(rooms, ri, bnds) ==
  IF rooms[ri].purpose \in {"bathroom", "circulation"} THEN rooms
  ELSE GrowHeight(GrowWidth(rooms, ri, bnds, MaxSteps(rooms[ri])),
                  ri, bnds, MaxSteps(rooms[ri]))

\* sorted(rooms, key=priority, reverse=True) as the sequence of the rooms'
\* indices: the sort is stable, equal priorities keep the order of rooms.
RECURSIVE ByPriority(_, _)
ByPriority(rooms, left) ==
  IF left = {} THEN <<>>
  ELSE LET i == CHOOSE i \in left :
                  \A j \in left : \/ rooms[j].priority < rooms[i].priority
                                  \/ rooms[j].priority = rooms[i].priority /\ i <= j
       IN  <<i>> \o ByPriority(rooms, left \ {i})

RECURSIVE ExpandFrom(_, _, _, _)
ExpandFrom(rooms, order, k, bnds) ==
  IF k > Len(order) THEN rooms
  ELSE ExpandFrom(ExpandRoom(rooms, order[k], bnds), order, k + 1, bnds)

expand(rooms, bnds) == ExpandFrom(rooms, ByPriority(rooms, DOMAIN rooms), 1, bnds)

clamp_to_bounds(r, bnds) ==
  [r EXCEPT !.x = Max2(bnds[1], Min2(r.x, bnds[3] - r.width)),
            !.y = Max2(bnds[2], Min2(r.y, bnds[4] - r.height))]

ClampAll(rooms, bnds) == [i \in DOMAIN rooms |-> clamp_to_bounds(rooms[i], bnds)]

PolishRoom(r) ==
  IF r.purpose = "circulation"
  THEN [r EXCEPT !.x = RoundHalfEven(r.x, Unit) * Unit,
                 !.y = RoundHalfEven(r.y, Unit) * Unit]
  ELSE IF r.purpose = "bathroom"
  THEN [r EXCEPT !.x = RoundHalfEven(r.x, 2 * Unit) * 2 * Unit]
  ELSE r

polish_layout(rooms) == [i \in DOMAIN rooms |-> PolishRoom(rooms[i])]

\* LayoutQualityScorer._shares_wall with its default tol = 0.5
_shares_wall(a, b) ==
  LET tol == Half(Unit)
  IN  IF Abs(a.x + a.width - b.x) < tol \/ Abs(a.x - (b.x + b.width)) < tol
      THEN Min2(a.y + a.height, b.y + b.height) - Max2(a.y, b.y) > 2 * Unit
      ELSE IF Abs(a.y + a.height - b.y) < tol \/ Abs(a.y - (b.y + b.height)) < tol
      THEN Min2(a.x + a.width, b.x + b.width) - Max2(a.x, b.x) > 2 * Unit
      ELSE FALSE

\* A compactness bonus that starts from 9.
CompactnessBonusFromNine(rooms) == Max2(0, 9 - Len(rooms))

CompactnessBonus(rooms) == Max2(0, 10 - Len(rooms))

\* A score without the floor at 0.
ScoreNoFloor(rooms, doors) ==
  100 - (IF FirstIdx(rooms, IsLiving) = 0 THEN 0
         ELSE 10 * Max2(0, Cardinality({d \in DOMAIN doors :
                rooms[FirstIdx(rooms, IsLiving)].room_id \in {doors[d].from_room, doors[d].to_room}}) - 2))
      - (IF FirstIdx(rooms, IsKitchen) = 0 THEN 0
         ELSE 15 * Cardinality({i \in DOMAIN rooms : rooms[i].purpose = "bedroom"
                /\ _shares_wall(rooms[FirstIdx(rooms, IsKitchen)], rooms[i])}))
      - (IF FirstIdx(rooms, IsLiving) = 0 THEN 0
         ELSE 10 * Cardinality({i \in DOMAIN rooms : rooms[i].purpose = "bathroom"
                /\ _shares_wall(rooms[FirstIdx(rooms, IsLiving)], rooms[i])}))
      - 5 * Max2(0, Cardinality({i \in DOMAIN rooms : rooms[i].purpose = "circulation"}) - 3)
      + CompactnessBonus(rooms)

score(rooms, doors) ==
  LET li == FirstIdx(rooms, IsLiving)
      ki == FirstIdx(rooms, IsKitchen)
      corridors == Cardinality({i \in DOMAIN rooms : rooms[i].purpose = "circulation"})
      bedrooms == {i \in DOMAIN rooms : rooms[i].purpose = "bedroom"}
      bathrooms == {i \in DOMAIN rooms : rooms[i].purpose = "bathroom"}
      living_doors ==
        IF li = 0 THEN 0
        ELSE Cardinality({d \in DOMAIN doors :
               doors[d].from_room = rooms[li].room_id \/ doors[d].to_room = rooms[li].room_id})
      p1 == IF living_doors > 2 THEN (living_doors - 2) * 10 ELSE 0
      p2 == IF ki = 0 THEN 0
            ELSE 15 * Cardinality({i \in bedrooms : _shares_wall(rooms[ki], rooms[i])})
      p3 == IF li = 0 THEN 0
            ELSE 10 * Cardinality({i \in bathrooms : _shares_wall(rooms[li], rooms[i])})
      p4 == IF corridors > 3 THEN (corridors - 3) * 5 ELSE 0
  IN  Max2(100 - p1 - p2 - p3 - p4 + CompactnessBonus(rooms), 0)

(***************************************************************************)
(* Envelope Builder                                                        *)
(***************************************************************************)
WallSegment(x1, y1, x2, y2, kind) == [x1 |-> x1, y1 |-> y1, x2 |-> x2, y2 |-> y2, kind |-> kind]

Cell(id, purpose, x, y, w, h) == [room_id |-> id, purpose |-> purpose, x |-> x, y |-> y, w |-> w, h |-> h]

\* abs(d) < EPS, EPS = 0.01
WithinEPS(d) == 100 * Abs(d) < Unit

\* a.area < MIN_CORRIDOR_AREA, MIN_CORRIDOR_AREA = 6.0
BelowMinCorridorArea(c) == c.w * c.h < 6 * Unit * Unit

\* round(v, 2), in hundredths
Round2(v) == RoundHalfEven(100 * v, Unit)

rooms_to_cells(layout_rooms) ==
  [i \in DOMAIN layout_rooms |->
     Cell(layout_rooms[i].room_id, layout_rooms[i].purpose, layout_rooms[i].x,
          layout_rooms[i].y, layout_rooms[i].width, layout_rooms[i].height)]

filter_noise_cells(cells) ==
  LET Keep(c) == ~(c.purpose = "circulation" /\ BelowMinCorridorArea(c))
  IN  SelectSeq(cells, Keep)

IsVertical(w) == WithinEPS(w.x1 - w.x2)

IsHorizontal(w) == WithinEPS(w.y1 - w.y2)

\* w can be folded into m as a vertical run / as a horizontal run.
MergesVertical(w, m) ==
  /\ IsVertical(w) /\ IsVertical(m)
  /\ WithinEPS(w.x1 - m.x1)
  /\ (WithinEPS(w.y2 - m.y1) \/ WithinEPS(w.y1 - m.y2))

MergesHorizontal(w, m) ==
  /\ IsHorizontal(w) /\ IsHorizontal(m)
  /\ WithinEPS(w.y1 - m.y1)
  /\ (WithinEPS(w.x2 - m.x1) \/ WithinEPS(w.x1 - m.x2))

Min3(a, b, c) == Min2(a, Min2(b, c))

Max3(a, b, c) == Max2(a, Max2(b, c))

\* m after w has been folded into it.
FoldInto(m, w) ==
  IF MergesVertical(w, m)
  THEN [m EXCEPT !.y1 = Min3(m.y1, w.y1, w.y2), !.y2 = Max3(m.y2, w.y1, w.y2)]
  ELSE [m EXCEPT !.x1 = Min3(m.x1, w.x1, w.x2), !.x2 = Max3(m.x2, w.x1, w.x2)]

\* The body of the outer loop of merge_walls: w is folded into the first
\* segment of merged of its kind it touches end to end, or appended.
MergeOne(merged, w) ==
  LET Fits(m) == m.kind = w.kind /\ (MergesVertical(w, m) \/ MergesHorizontal(w, m))
      k == CHOOSE k \in DOMAIN merged :
             Fits(merged[k]) /\ \A j \in 1..(k - 1) : ~Fits(merged[j])
  IN  IF \E j \in DOMAIN merged : Fits(merged[j])
      THEN [merged EXCEPT ![k] = FoldInto(merged[k], w)]
      ELSE Append(merged, w)

RECURSIVE MergeFrom(_, _, _)
MergeFrom(walls, k, merged) ==
  IF k > Len(walls) THEN merged
  ELSE MergeFrom(walls, k + 1, MergeOne(merged, walls[k]))

merge_walls(walls) == MergeFrom(walls, 1, <<>>)

\* The grid of compute_union_silhouette (its default, which build_envelope uses).
SILHOUETTE_GRID == Half(Unit)

snap(v) == RoundHalfEven(v, SILHOUETTE_GRID) * SILHOUETTE_GRID

\* The values x0, x0 + grid, ... below x1 that the while loops visit.
GridSteps(v0, v1) ==
  {v0 + k * SILHOUETTE_GRID : k \in {n \in 0..((Max2(v1 - v0, 0)) \div SILHOUETTE_GRID) :
                                       v0 + n * SILHOUETTE_GRID < v1}}

occupied(cells) ==
  UNION { {<<x, y>> : x \in GridSteps(snap(cells[i].x), snap(cells[i].x + cells[i].w)),
                      y \in GridSteps(snap(cells[i].y), snap(cells[i].y + cells[i].h))} :
          i \in DOMAIN cells }

\* The unit boundary edges one occupied grid cell contributes, in the order
\* left, right, top, bottom, as outer segments.
CellEdges(occ, p) ==
  LET g == SILHOUETTE_GRID
      x == p[1]
      y == p[2]
  IN  (IF <<x - g, y>> \notin occ THEN <<WallSegment(x, y, x, y + g, "outer")>> ELSE <<>>)
      \o (IF <<x + g, y>> \notin occ
          THEN <<WallSegment(x + g, y, x + g, y + g, "outer")>> ELSE <<>>)
      \o (IF <<x, y - g>> \notin occ THEN <<WallSegment(x, y, x + g, y, "outer")>> ELSE <<>>)
      \o (IF <<x, y + g>> \notin occ
          THEN <<WallSegment(x, y + g, x + g, y + g, "outer")>> ELSE <<>>)

RECURSIVE BoundaryEdges(_, _, _)
BoundaryEdges(occ, order, k) ==
  IF k > Len(order) THEN <<>>
  ELSE CellEdges(occ, order[k]) \o BoundaryEdges(occ, order, k + 1)

\* order is the order in which the loop over the set occupied visits it.
compute_union_silhouette(cells, order) ==
  merge_walls(BoundaryEdges(occupied(cells), order, 1))

\* The four walls of one cell: left, right, top, bottom.
CellWalls(c) ==
  <<WallSegment(c.x, c.y, c.x, c.y + c.h, "inner"),
    WallSegment(c.x + c.w, c.y, c.x + c.w, c.y + c.h, "inner"),
    WallSegment(c.x, c.y, c.x + c.w, c.y, "inner"),
    WallSegment(c.x, c.y + c.h, c.x + c.w, c.y + c.h, "inner")>>

RECURSIVE compute_room_partition_walls(_)
compute_room_partition_walls(cells) ==
  IF cells = <<>> THEN <<>>
  ELSE (IF Head(cells).purpose = "circulation" THEN <<>> ELSE CellWalls(Head(cells)))
       \o compute_room_partition_walls(Tail(cells))

WallKey(w) == <<Round2(w.x1), Round2(w.y1), Round2(w.x2), Round2(w.y2)>>

\* A subtraction that drops only the first segment whose key is an outer key.
SubtractFirstMatch(inner, outer) ==
  LET outer_keys == {WallKey(outer[i]) : i \in DOMAIN outer}
      Matches(w) == WallKey(w) \in outer_keys
      first == FirstIdx(inner, Matches)
  IN  IF first = 0 THEN inner
      ELSE SubSeq(inner, 1, first - 1) \o SubSeq(inner, first + 1, Len(inner))

subtract_outer_from_inner(inner, outer) ==
  LET outer_keys == {WallKey(outer[i]) : i \in DOMAIN outer}
      Keep(w) == WallKey(w) \notin outer_keys
  IN  SelectSeq(inner, Keep)

build_envelope(layout_rooms, order) ==
  LET cells == filter_noise_cells(rooms_to_cells(layout_rooms))
      outer == compute_union_silhouette(cells, order)
      inner_raw == compute_room_partition_walls(cells)
      inner_clean == subtract_outer_from_inner(inner_raw, outer)
  IN  outer \o merge_walls(inner_clean)

\* thickness / 2 for the default thickness = 0.6
WALL_OFFSET == 3 * (Unit \div 10)

\* intersects_cells of offset_outer_walls
intersects_cells(cells, x1, y1, x2, y2) ==
  \E i \in DOMAIN cells :
    /\ cells[i].purpose # "circulation"
    /\ ~(x2 <= cells[i].x \/ x1 >= cells[i].x + cells[i].w
         \/ y2 <= cells[i].y \/ y1 >= cells[i].y + cells[i].h)

\* An offset that does not look at the kind of the wall.
OffsetWallAnyKind(w, cells) ==
  IF IsVertical(w)
  THEN LET dx == IF intersects_cells(cells, w.x1 - WALL_OFFSET, w.y1, w.x2 - WALL_OFFSET, w.y2)
                 THEN WALL_OFFSET ELSE -WALL_OFFSET
       IN  WallSegment(w.x1 + dx, w.y1, w.x2 + dx, w.y2, w.kind)
  ELSE IF IsHorizontal(w)
  THEN LET dy == IF intersects_cells(cells, w.x1, w.y1 - WALL_OFFSET, w.x2, w.y2 - WALL_OFFSET)
                 THEN WALL_OFFSET ELSE -WALL_OFFSET
       IN  WallSegment(w.x1, w.y1 + dy, w.x2, w.y2 + dy, w.kind)
  ELSE w

\* The body of the loop of offset_outer_walls for one wall.
OffsetWall(w, cells) ==
  IF w.kind # "outer" THEN w
  ELSE IF IsVertical(w)
  THEN LET dx == IF intersects_cells(cells, w.x1 - WALL_OFFSET, w.y1, w.x2 - WALL_OFFSET, w.y2)
                 THEN WALL_OFFSET ELSE -WALL_OFFSET
       IN  WallSegment(w.x1 + dx, w.y1, w.x2 + dx, w.y2, "outer")
  ELSE IF IsHorizontal(w)
  THEN LET dy == IF intersects_cells(cells, w.x1, w.y1 - WALL_OFFSET, w.x2, w.y2 - WALL_OFFSET)
                 THEN WALL_OFFSET ELSE -WALL_OFFSET
       IN  WallSegment(w.x1, w.y1 + dy, w.x2, w.y2 + dy, "outer")
  ELSE w

offset_outer_walls(walls, cells) == [i \in DOMAIN walls |-> OffsetWall(walls[i], cells)]

(***************************************************************************)
(* The inputs of generate_layout: room graphs over a catalogue of rooms.   *)
(***************************************************************************)
MaxRooms == 3

Edge(to, type, pref) == [to |-> to, type |-> type, edge_preference |-> pref]

InputRoom(id, name, purpose, w4, h4, zone, edges) ==
  [room_id |-> id, name |-> name, purpose |-> purpose,
   dimensions_ft |-> <<w4 * (Unit \div 4), h4 * (Unit \div 4)>>,
   placement_intent |-> [zone |-> zone], adjacency_edges |-> edges]

CatalogIds == <<"liv", "foy", "kit", "mbed", "mbath", "cbath", "kid">>

Variants == {"a", "b"}

\* Dimensions are given in quarter units.
CatalogRoom(id, v) ==
  CASE id = "liv" ->
         IF v = "a"
         THEN InputRoom(id, "Living Room", "living", 48, 40, "public",
                        <<Edge("kit", "attach", "right")>>)
         ELSE InputRoom(id, "Living Room", "living", 40, 40, "public",
                        <<Edge("kit", "attach", "none"), Edge("mbed", "attach", "rear")>>)
    [] id = "foy" ->
         IF v = "a"
         THEN InputRoom(id, "Foyer", "foyer", 16, 16, "public", <<>>)
         ELSE InputRoom(id, "Foyer", "foyer", 18, 16, "public",
                        <<Edge("liv", "attach", "left")>>)
    [] id = "kit" ->
         IF v = "a"
         THEN InputRoom(id, "Kitchen", "kitchen", 32, 32, "service",
                        <<Edge("liv", "attach", "none")>>)
         ELSE InputRoom(id, "Kitchen", "kitchen", 32, 32, "service",
                        <<Edge("mbed", "separate", "none")>>)
    [] id = "mbed" ->
         IF v = "a"
         THEN InputRoom(id, "Master Bedroom", "bedroom", 40, 40, "private",
                        <<Edge("mbath", "attach", "right")>>)
         ELSE InputRoom(id, "Master Bedroom", "bedroom", 44, 36, "private",
                        <<Edge("mbath", "attach", "none"), Edge("kid", "near", "none")>>)
    [] id = "mbath" ->
         IF v = "a"
         THEN InputRoom(id, "Master Bathroom", "bathroom", 20, 16, "private", <<>>)
         ELSE InputRoom(id, "Master Bathroom", "bathroom", 24, 12, "private", <<>>)
    [] id = "cbath" ->
         IF v = "a"
         THEN InputRoom(id, "Common Bathroom", "bathroom", 16, 20, "semi_private", <<>>)
         ELSE InputRoom(id, "Common Bathroom", "bathroom", 13, 20, "semi_private",
                        <<Edge("kid", "attach", "none")>>)
    [] id = "kid" ->
         IF v = "a"
         THEN InputRoom(id, "Bedroom 2", "bedroom", 32, 32, "private",
                        <<Edge("cbath", "attach", "none")>>)
         ELSE InputRoom(id, "Bedroom 2", "bedroom", 28, 30, "private",
                        <<Edge("liv", "attach", "front"), Edge("cbath", "near", "none")>>)

\* The rooms of the catalogue whose index is in S, in catalogue order.
RECURSIVE PlanRooms(_, _, _)
PlanRooms(S, v, i) ==
  IF i > Len(CatalogIds) THEN <<>>
  ELSE (IF i \in S THEN <<CatalogRoom(CatalogIds[i], v)>> ELSE <<>>)
       \o PlanRooms(S, v, i + 1)

Plans ==
  { [has_rooms |-> TRUE, rooms |-> PlanRooms(S, v, 1)] :
      S \in {T \in SUBSET DOMAIN CatalogIds : Cardinality(T) <= MaxRooms},
      v \in Variants }

\* A plan_json without a "rooms" key.
NoRoomsPlan == [has_rooms |-> FALSE, rooms |-> <<>>]

EdgePrefs == {"none", "left", "right", "front", "rear"}

\* A 10x10 living room with an attach edge to an 8x8 kitchen.
ScenarioA(pref) ==
  [has_rooms |-> TRUE,
   rooms |-> <<InputRoom("liv", "Living Room", "living", 40, 40, "public",
                         <<Edge("kit", "attach", pref)>>),
               InputRoom("kit", "Kitchen", "kitchen", 32, 32, "service", <<>>)>>]

\* Room graphs with a dimension that is zero or negative.
DegeneratePlans ==
  { [has_rooms |-> TRUE,
     rooms |-> <<InputRoom("liv", "Living Room", "living", 0, 40, "public", <<>>)>>],
    [has_rooms |-> TRUE,
     rooms |-> <<InputRoom("liv", "Living Room", "living", 40, 40, "public",
                           <<Edge("kit", "attach", "none")>>),
                 InputRoom("kit", "Kitchen", "kitchen", -32, 32, "service", <<>>)>>],
    [has_rooms |-> TRUE,
     rooms |-> <<InputRoom("liv", "Living Room", "living", 40, 40, "public", <<>>),
                 InputRoom("mbed", "Master Bedroom", "bedroom", 0, 0, "private", <<>>)>>] }

\* Room graphs that bring circulation rooms of their own.
HallPlans ==
  { [has_rooms |-> TRUE,
     rooms |-> <<InputRoom("hall1", "Hall 1", "circulation", 16, 24, "circulation", <<>>),
                 InputRoom("hall2", "Hall 2", "circulation", 16, 32, "circulation", <<>>)>>],
    [has_rooms |-> TRUE,
     rooms |-> <<InputRoom("liv", "Living Room", "living", 40, 40, "public", <<>>),
                 InputRoom("hall1", "Hall 1", "circulation", 16, 24, "circulation", <<>>),
                 InputRoom("hall2", "Hall 2", "circulation", 16, 32, "circulation", <<>>)>>] }

\* Room graphs with sizes off the 0.5 grid: a kitchen of 25.25 x 8 whose right
\* wall ends at 31.25 and a common bathroom of 3.25 x 5 attached to it.
OffGridPlans ==
  { [has_rooms |-> TRUE,
     rooms |-> <<InputRoom("liv", "Living Room", "living", 40, 40, "public",
                           <<Edge("kit", "attach", "none")>>),
                 InputRoom("kit", "Kitchen", "kitchen", 101, 32, "service",
                           <<Edge("cbath", "attach", pref)>>),
                 InputRoom("cbath", "Common Bathroom", "bathroom", 13, 20, "service", <<>>)>>] :
      pref \in {"none", "right"} }

\* Room graphs whose living room and master bedroom are joined by an edge that
\* is neither "near" nor "attach", declared one way or both ways.
SeparatePlans ==
  { [has_rooms |-> TRUE,
     rooms |-> <<InputRoom("liv", "Living Room", "living", 40, 40, "public",
                           <<Edge("mbed", "separate", "none")>>),
                 InputRoom("mbed", "Master Bedroom", "bedroom", 40, 40, "private", back)>>] :
      back \in {<<>>, <<Edge("liv", "separate", "none")>>} }

\* Room graphs with a circulation room smaller than 4 x 4.
NarrowHallPlans ==
  { [has_rooms |-> TRUE,
     rooms |-> <<InputRoom("liv", "Living Room", "living", 40, 40, "public", <<>>),
                 InputRoom("hall3", "Hall 3", "circulation", 8, h4, "circulation", <<>>)>>] :
      h4 \in {12, 24} }

\* Three circulation rooms of which the first can merge with the third, the
\* third with the second, and the first not with the second.
ThreeHallPlans ==
  { [has_rooms |-> TRUE,
     rooms |-> <<InputRoom("hallA", "Hall A", "circulation", 16, 16, "circulation", <<>>),
                 InputRoom("hallC", "Hall C", "circulation", 24, 32, "circulation", <<>>),
                 InputRoom("hallB", "Hall B", "circulation", 24, 16, "circulation", <<>>)>>] }

\* Room graphs of a small master bedroom and a master bathroom that declares the
\* bedroom as the target of an "attach" edge, with or without a third room.
MasterPairPlans ==
  { [has_rooms |-> TRUE,
     rooms |-> <<InputRoom("mbed", "Master Bedroom", "bedroom", 20, 16, "private", <<>>),
                 InputRoom("mbath", "Master Bathroom", "bathroom", 20, 16, "private",
                           <<Edge("mbed", "attach", "none")>>)>> \o rest] :
      rest \in {<<>>,
                <<InputRoom("cbath", "Common Bathroom", "bathroom", 16, 20,
                            "semi_private", <<>>)>>} }

\* The inputs of generate_layout.
Inputs ==
  Plans \cup {ScenarioA(pref) : pref \in EdgePrefs} \cup DegeneratePlans \cup HallPlans
    \cup OffGridPlans \cup SeparatePlans \cup NarrowHallPlans \cup ThreeHallPlans
    \cup MasterPairPlans \cup {NoRoomsPlan}

(***************************************************************************)
(* generate_layout as a state machine: pc is the phase about to run, iter  *)
(* the number of iterations the running loop has completed.                *)
(***************************************************************************)
VARIABLES plan, rooms, doors, quality_score, pc, iter

\* The Envelope Builder's variables: the layout whose rooms are the cells, the
\* outer list to subtract, the current wall list, the lists before each
\* operation applied so far, and the names of the operations applied.
VARIABLES elayout, eouter, ewalls, ehist, eops

layoutVars == <<plan, rooms, doors, quality_score, pc, iter>>

envVars == <<elayout, eouter, ewalls, ehist, eops>>

vars == <<plan, rooms, doors, quality_score, pc, iter, elayout, eouter, ewalls, ehist, eops>>

EnvIdle ==
  /\ elayout = <<>>
  /\ eouter = <<>>
  /\ ewalls = <<>>
  /\ ehist = <<>>
  /\ eops = <<>>

Init ==
  /\ plan \in Inputs
  /\ rooms = <<>>
  /\ doors = <<>>
  /\ quality_score = -1
  /\ pc = "construct"
  /\ iter = 0
  /\ EnvIdle

\* rooms = [Room(...) for r in plan_json["rooms"]]
Construct ==
  /\ pc = "construct"
  /\ plan.has_rooms
  /\ rooms' = [i \in DOMAIN plan.rooms |->
                 Room(plan.rooms[i].room_id, plan.rooms[i].name, plan.rooms[i].purpose,
                      plan.rooms[i].dimensions_ft[1], plan.rooms[i].dimensions_ft[2],
                      plan.rooms[i].placement_intent.zone, plan.rooms[i].adjacency_edges)]
  /\ pc' = "place"
  /\ UNCHANGED <<plan, doors, quality_score, iter>>
  /\ UNCHANGED envVars

\* A construction that reads a missing "rooms" key as an empty list.
ConstructMissingAsEmpty ==
  /\ pc = "construct"
  /\ ~plan.has_rooms
  /\ rooms' = <<>>
  /\ pc' = "place"
  /\ UNCHANGED <<plan, doors, quality_score, iter>>
  /\ UNCHANGED envVars

\* plan_json["rooms"] raises KeyError
ConstructError ==
  /\ pc = "construct"
  /\ ~plan.has_rooms
  /\ pc' = "error"
  /\ UNCHANGED <<plan, rooms, doors, quality_score, iter>>
  /\ UNCHANGED envVars

Place ==
  /\ pc = "place"
  /\ rooms' = place(rooms)
  /\ pc' = "refine1"
  /\ UNCHANGED <<plan, doors, quality_score, iter>>
  /\ UNCHANGED envVars

\* One iteration of refine(rooms, bounds, iterations); the last one is followed
\* by the snap of all rooms and the return.
RefineStep(phase, iterations, next) ==
  /\ pc = phase
  /\ iter < iterations
  /\ LET r == RefineIteration(rooms, BOUNDS)
     IN  IF iter + 1 = iterations
         THEN rooms' = SnapAll(r) /\ pc' = next /\ iter' = 0
         ELSE rooms' = r /\ pc' = pc /\ iter' = iter + 1
  /\ UNCHANGED <<plan, doors, quality_score>>
  /\ UNCHANGED envVars

\* One pass of resolve(rooms); it returns after a pass without overlaps or
\* after MAX_ITERS passes.
ResolveStep(phase, next) ==
  /\ pc = phase
  /\ iter < MAX_ITERS
  /\ LET ps == ResolvePass(rooms)
     IN  /\ rooms' = ps.rooms
         /\ IF (~ps.changed /\ ps.overlaps_found = 0) \/ iter + 1 = MAX_ITERS
            THEN pc' = next /\ iter' = 0
            ELSE pc' = pc /\ iter' = iter + 1
  /\ UNCHANGED <<plan, doors, quality_score>>
  /\ UNCHANGED envVars

Refine1 == RefineStep("refine1", 3, "resolve1")

Resolve1 == ResolveStep("resolve1", "refine2")

Refine2 == RefineStep("refine2", 2, "lock")

LockPrimary ==
  /\ pc = "lock"
  /\ rooms' = [i \in DOMAIN rooms |->
                 IF i \in {FirstIdx(rooms, IsLiving), FirstIdx(rooms, IsKitchen),
                           FirstIdx(rooms, HasFoyer)}
                 THEN [rooms[i] EXCEPT !.locked = TRUE]
                 ELSE rooms[i]]
  /\ pc' = "insert"
  /\ UNCHANGED <<plan, doors, quality_score, iter>>
  /\ UNCHANGED envVars

Insert ==
  /\ pc = "insert"
  /\ rooms' = insert(rooms)
  /\ pc' = "resolve2"
  /\ UNCHANGED <<plan, doors, quality_score, iter>>
  /\ UNCHANGED envVars

Resolve2 == ResolveStep("resolve2", "merge")

Merge ==
  /\ pc = "merge"
  /\ rooms' = merge(rooms)
  /\ pc' = "lockcirc"
  /\ UNCHANGED <<plan, doors, quality_score, iter>>
  /\ UNCHANGED envVars

LockCirculation ==
  /\ pc = "lockcirc"
  /\ rooms' = [i \in DOMAIN rooms |->
                 IF rooms[i].purpose = "circulation"
                 THEN [rooms[i] EXCEPT !.locked = TRUE]
                 ELSE rooms[i]]
  /\ pc' = "refine3"
  /\ UNCHANGED <<plan, doors, quality_score, iter>>
  /\ UNCHANGED envVars

Refine3 == RefineStep("refine3", 1, "doors")

PlaceDoors ==
  /\ pc = "doors"
  /\ doors' = DoorPlacer_place(rooms)
  /\ pc' = "expand"
  /\ UNCHANGED <<plan, rooms, quality_score, iter>>
  /\ UNCHANGED envVars

Expand ==
  /\ pc = "expand"
  /\ rooms' = expand(rooms, BOUNDS)
  /\ pc' = "clamp"
  /\ UNCHANGED <<plan, doors, quality_score, iter>>
  /\ UNCHANGED envVars

Clamp ==
  /\ pc = "clamp"
  /\ rooms' = ClampAll(rooms, BOUNDS)
  /\ pc' = "polish"
  /\ UNCHANGED <<plan, doors, quality_score, iter>>
  /\ UNCHANGED envVars

Polish ==
  /\ pc = "polish"
  /\ rooms' = polish_layout(rooms)
  /\ pc' = "score"
  /\ UNCHANGED <<plan, doors, quality_score, iter>>
  /\ UNCHANGED envVars

\* quality_score computed; generate_layout returns the layout.
Score ==
  /\ pc = "score"
  /\ quality_score' = score(rooms, doors)
  /\ pc' = "done"
  /\ UNCHANGED <<plan, rooms, doors, iter>>
  /\ UNCHANGED envVars

Next ==
  \/ Construct
  \/ ConstructError
  \/ Place
  \/ Refine1
  \/ Resolve1
  \/ Refine2
  \/ LockPrimary
  \/ Insert
  \/ Resolve2
  \/ Merge
  \/ LockCirculation
  \/ Refine3
  \/ PlaceDoors
  \/ Expand
  \/ Clamp
  \/ Polish
  \/ Score

Spec == Init /\ [][Next]_vars

(***************************************************************************)
(* The Envelope Builder's functions as a state machine: operations applied *)
(* to a wall list (EnvSpec), and build_envelope applied to a layout        *)
(* (BuildSpec).                                                            *)
(***************************************************************************)
MaxWalls == 3

MaxOps == 2

LayoutRoom(id, purpose, x, y, w, h) ==
  [room_id |-> id, purpose |-> purpose, x |-> x, y |-> y, width |-> w, height |-> h]

\* Wall segments: three unit runs of the line x = 0 that touch end to end, a
\* run 2/640 beside the first, a run of the line y = 0, and inner copies.
SegSet ==
  { WallSegment(0, 0, 0, Unit, "outer"),
    WallSegment(0, Unit, 0, 2 * Unit, "outer"),
    WallSegment(0, 2 * Unit, 0, 3 * Unit, "outer"),
    WallSegment(2, 0, 2, Unit, "outer"),
    WallSegment(0, 0, Unit, 0, "outer"),
    WallSegment(0, 0, 0, Unit, "inner"),
    WallSegment(2, Unit, 2, 2 * Unit, "inner"),
    WallSegment(0, 0, Unit, 0, "inner") }

RECURSIVE SeqsUpTo(_, _)
SeqsUpTo(S, n) ==
  IF n = 0 THEN {<<>>}
  ELSE LET shorter == SeqsUpTo(S, n - 1)
       IN  shorter \cup {Append(q, e) : q \in shorter, e \in S}

WallLists == SeqsUpTo(SegSet, MaxWalls)

\* A layout and an outer list to go with the wall list.
EnvSetups ==
  { [layout |-> <<LayoutRoom("a", "living", 0, 0, 2 * Unit, 3 * Unit)>>,
     outer |-> <<WallSegment(0, 0, 0, Unit, "outer"), WallSegment(0, 0, Unit, 0, "outer")>>],
    [layout |-> <<LayoutRoom("a", "living", -2 * Unit, 0, 2 * Unit, 3 * Unit),
                  LayoutRoom("c", "circulation", 0, 0, 2 * Unit, 3 * Unit)>>,
     outer |-> <<WallSegment(0, Unit, 0, 2 * Unit, "outer")>>] }

EnvInit ==
  /\ \E su \in EnvSetups : elayout = su.layout /\ eouter = su.outer
  /\ ewalls \in WallLists
  /\ ehist = <<>>
  /\ eops = <<>>
  /\ plan = NoRoomsPlan
  /\ rooms = <<>>
  /\ doors = <<>>
  /\ quality_score = -1
  /\ pc = "idle"
  /\ iter = 0

\* An operation applied to the wall list.
EnvOp(name, result) ==
  /\ Len(eops) < MaxOps
  /\ ewalls' = result
  /\ ehist' = Append(ehist, ewalls)
  /\ eops' = Append(eops, name)
  /\ UNCHANGED <<elayout, eouter>>
  /\ UNCHANGED layoutVars

EnvMerge == EnvOp("merge", merge_walls(ewalls))

EnvSubtract == EnvOp("subtract", subtract_outer_from_inner(ewalls, eouter))

EnvOffset == EnvOp("offset", offset_outer_walls(ewalls, rooms_to_cells(elayout)))

EnvNext ==
  \/ EnvMerge
  \/ EnvSubtract
  \/ EnvOffset

EnvSpec == EnvInit /\ [][EnvNext]_vars

\* The orders in which a loop over the set S can visit it.
RECURSIVE Perms(_)
Perms(S) ==
  IF S = {} THEN {<<>>}
  ELSE UNION { {<<e>> \o q : q \in Perms(S \ {e})} : e \in S }

\* Layouts of rooms on the half-unit grid, small enough to enumerate the
\* visiting orders of their occupied grid cells; in the last one the two rooms
\* meet at a corner only.
BuildLayouts ==
  { <<>>,
    <<LayoutRoom("a", "living", 0, 0, Unit + Half(Unit), Half(Unit))>>,
    <<LayoutRoom("a", "living", 5 * Unit, 5 * Unit, Unit, Unit)>>,
    <<LayoutRoom("a", "living", 0, 0, Unit, Unit),
      LayoutRoom("b", "kitchen", Unit, 0, Half(Unit), Unit)>>,
    <<LayoutRoom("a", "living", 0, 0, Unit, Half(Unit)),
      LayoutRoom("b", "kitchen", 0, Half(Unit), Unit, Half(Unit))>>,
    <<LayoutRoom("a", "living", 0, 0, Unit, Unit),
      LayoutRoom("c", "circulation", Unit, 0, Unit, Unit)>>,
    <<LayoutRoom("a", "living", 0, 0, Half(Unit), Half(Unit)),
      LayoutRoom("b", "kitchen", Half(Unit), Half(Unit), Half(Unit), Half(Unit))>> }

BuildInit ==
  /\ elayout \in BuildLayouts
  /\ eouter = <<>>
  /\ ewalls = <<>>
  /\ ehist = <<>>
  /\ eops = <<>>
  /\ plan = NoRoomsPlan
  /\ rooms = <<>>
  /\ doors = <<>>
  /\ quality_score = -1
  /\ pc = "idle"
  /\ iter = 0

\* build_envelope(layout); the loop over the set of occupied grid cells may
\* visit it in any order.
EnvBuild ==
  /\ eops = <<>>
  /\ \E order \in Perms(occupied(filter_noise_cells(rooms_to_cells(elayout)))) :
       ewalls' = build_envelope(elayout, order)
  /\ ehist' = Append(ehist, ewalls)
  /\ eops' = <<"build">>
  /\ UNCHANGED <<elayout, eouter>>
  /\ UNCHANGED layoutVars

BuildNext ==
  \/ EnvBuild
  \/ EnvMerge
  \/ EnvOffset

BuildSpec == BuildInit /\ [][BuildNext]_vars

(***************************************************************************)
(* LayoutQualityScorer.score applied to layouts built around a kitchen and *)
(* a living room: bedrooms along the kitchen's left wall, bathrooms along  *)
(* the living room's left wall, one bedroom and one bathroom away from     *)
(* both, corridors in a column of their own; no two rooms overlap.         *)
(***************************************************************************)
MaxAdjacent == 5

MaxCorridors == 4

MaxLivingDoors == 4

\* A room with its rectangle, in whole plan units.
PlacedRoom(id, name, purpose, zone, x, y, w, h) ==
  [Room(id, name, purpose, w * Unit, h * Unit, zone, <<>>) EXCEPT !.x = x * Unit, !.y = y * Unit]

NumberedId(prefix, i) == prefix \o ToString(i)

ScoreLayout(hasLiving, hasKitchen, bedsAtKitchen, bathsAtLiving, farBeds, farBaths, halls) ==
  (IF hasKitchen THEN <<PlacedRoom("kit", "Kitchen", "kitchen", "service", 8, 5, 6, 21)>> ELSE <<>>)
  \o [i \in 1..bedsAtKitchen |->
        PlacedRoom(NumberedId("bed", i), "Bedroom", "bedroom", "private", 5, 5 + 3 * (i - 1), 3, 3)]
  \o (IF hasLiving THEN <<PlacedRoom("liv", "Living Room", "living", "public", 20, 5, 10, 21)>> ELSE <<>>)
  \o [i \in 1..bathsAtLiving |->
        PlacedRoom(NumberedId("bath", i), "Bathroom", "bathroom", "private", 17, 5 + 3 * (i - 1), 3, 3)]
  \o [i \in 1..farBeds |->
        PlacedRoom("guest", "Guest Bedroom", "bedroom", "private", 5, 30, 4, 4)]
  \o [i \in 1..farBaths |->
        PlacedRoom("wc", "Common Bathroom", "bathroom", "semi_private", 10, 30, 4, 4)]
  \o [i \in 1..halls |->
        PlacedRoom(NumberedId("hall", i), "Corridor", "circulation", "circulation", 31, 5 + 4 * (i - 1), 4, 4)]

Door(from_room, to_room, x, y, orientation) ==
  [from_room |-> from_room, to_room |-> to_room, x |-> x, y |-> y, orientation |-> orientation]

\* Doors of the living room, as from_room and as to_room in turn, and doors
\* between other rooms.
ScoreDoors(livingDoors, otherDoors) ==
  [i \in 1..livingDoors |->
     IF i % 2 = 1 THEN Door("liv", "kit", 20 * Unit, (5 + i) * Unit, "vertical")
     ELSE Door("bath1", "liv", 20 * Unit, (5 + i) * Unit, "vertical")]
  \o [i \in 1..otherDoors |-> Door("kit", "bed1", 8 * Unit, 6 * Unit, "vertical")]

ScoreInit ==
  /\ \E hasLiving, hasKitchen \in BOOLEAN, bedsAtKitchen, bathsAtLiving \in 0..MaxAdjacent,
        farBeds, farBaths \in 0..1, halls \in 0..MaxCorridors :
       rooms = ScoreLayout(hasLiving, hasKitchen, bedsAtKitchen, bathsAtLiving,
                           farBeds, farBaths, halls)
  /\ \E livingDoors \in 0..MaxLivingDoors, otherDoors \in 0..1 :
       doors = ScoreDoors(livingDoors, otherDoors)
  /\ plan = NoRoomsPlan
  /\ quality_score = -1
  /\ pc = "tally"
  /\ iter = 0
  /\ EnvIdle

\* quality_score = scorer.score(rooms, doors)
Tally ==
  /\ pc = "tally"
  /\ quality_score' = score(rooms, doors)
  /\ pc' = "tallied"
  /\ UNCHANGED <<plan, rooms, doors, iter>>
  /\ UNCHANGED envVars

ScoreSpec == ScoreInit /\ [][Tally]_vars

(***************************************************************************)
(* The body of the inner loop of StrictOverlapResolver.resolve on one pair *)
(* of rooms: a is rooms[i], b is rooms[j] with i < j.                      *)
(***************************************************************************)

\* <<name, purpose>> of the rooms a pair is drawn from.
PairKinds ==
  { <<"Living Room", "living">>, <<"Kitchen", "kitchen">>, <<"Foyer", "foyer">>,
    <<"Master Bedroom", "bedroom">>, <<"Master Bathroom", "bathroom">>,
    <<"Bedroom 2", "bedroom">>, <<"Common Bathroom", "bathroom">>,
    <<"Corridor", "circulation">> }

\* a is a square of one of these sides at (10, 10); b is 4 x 4.
PairSizes == {4, 6}

\* The x and the y of b: across a's left or top wall, inside a, or past a.
PairOffsets == {8, 12, 16}

\* A room as the resolver finds it: placed, its priority set by the placer.
PairRoom(id, kind, locked, x, y, size) ==
  LET r == PlacedRoom(id, kind[1], kind[2], "public", x, y, size, size)
  IN  [r EXCEPT !.locked = locked, !.priority = PriorityOf(r)]

PairInit ==
  /\ \E ka, kb \in PairKinds, la, lb \in BOOLEAN, sa \in PairSizes, x, y \in PairOffsets :
       rooms = <<PairRoom("a", ka, la, 10, 10, sa), PairRoom("b", kb, lb, x, y, 4)>>
  /\ doors = <<>>
  /\ plan = NoRoomsPlan
  /\ quality_score = -1
  /\ pc = "pair"
  /\ iter = 0
  /\ EnvIdle

\* The loop body for i = 0, j = 1 on a fresh pass.
HandleOnePair ==
  /\ pc = "pair"
  /\ rooms' = HandlePair([rooms |-> rooms, changed |-> FALSE, overlaps_found |-> 0], 1, 2).rooms
  /\ pc' = "paired"
  /\ UNCHANGED <<plan, doors, quality_score, iter>>
  /\ UNCHANGED envVars

PairSpec == PairInit /\ [][HandleOnePair]_vars

(***************************************************************************)
(* StrictOverlapResolver._push_away on its own: rooms[1] is the mover,     *)
(* rooms[2] the anchor.                                                    *)
(***************************************************************************)

\* Width and height of the mover; the anchor is 6 x 4 at (10, 10).
PushSizes == {2, 8}

\* The x and the y of the mover.
PushOffsets == 5..15

PushInit ==
  /\ \E w, h \in PushSizes, x, y \in PushOffsets :
       rooms = <<PlacedRoom("m", "Bedroom 2", "bedroom", "private", x, y, w, h),
                 PlacedRoom("a", "Living Room", "living", "public", 10, 10, 6, 4)>>
  /\ doors = <<>>
  /\ plan = NoRoomsPlan
  /\ quality_score = -1
  /\ pc = "push"
  /\ iter = 0
  /\ EnvIdle

\* self._push_away(mover, anchor)
Push ==
  /\ pc = "push"
  /\ rooms' = <<_push_away(rooms[1], rooms[2]), rooms[2]>>
  /\ pc' = "pushed"
  /\ UNCHANGED <<plan, doors, quality_score, iter>>
  /\ UNCHANGED envVars

PushSpec == PushInit /\ [][Push]_vars

(***************************************************************************)
(* DoorPlacer.place on two rooms: a is 4 x 4 at (10, 10), b is 4 x 4 and   *)
(* shifted against a by eighths of a unit.                                 *)
(***************************************************************************)

Eighth == Unit \div 8

\* <<zone, purpose>> of the rooms a door pair is drawn from.
DoorKinds ==
  { <<"public", "living">>, <<"private", "bedroom">>, <<"private", "bathroom">>,
    <<"circulation", "circulation">> }

\* Shifts of b against a, in eighths: b beside a with a gap of -1/8 .. 2/8
\* (31 .. 34), b half way along a's wall with 1.875, 2 or 2.125 of it shared
\* (15 .. 17), b level with a (0).
DoorShifts == {-34, -33, -32, -31, -17, -16, -15, 0, 15, 16, 17, 31, 32, 33, 34}

DoorRoom(id, kind, dx, dy) ==
  [PlacedRoom(id, id, kind[2], kind[1], 10, 10, 4, 4)
     EXCEPT !.x = 10 * Unit + dx * Eighth, !.y = 10 * Unit + dy * Eighth]

DoorInit ==
  /\ \E ka, kb \in DoorKinds, dx, dy \in DoorShifts :
       rooms = <<DoorRoom("a", ka, 0, 0), DoorRoom("b", kb, dx, dy)>>
  /\ doors = <<>>
  /\ plan = NoRoomsPlan
  /\ quality_score = -1
  /\ pc = "doors"
  /\ iter = 0
  /\ EnvIdle

\* doors = DoorPlacer().place(rooms)
PlaceDoorsOfPair ==
  /\ pc = "doors"
  /\ doors' = DoorPlacer_place(rooms)
  /\ pc' = "doored"
  /\ UNCHANGED <<plan, rooms, quality_score, iter>>
  /\ UNCHANGED envVars

DoorSpec == DoorInit /\ [][PlaceDoorsOfPair]_vars

(***************************************************************************)
(* Properties                                                              *)
(***************************************************************************)
Returned == pc = "done"

SameRect(a, b) == a.x = b.x /\ a.y = b.y /\ a.width = b.width /\ a.height = b.height

\* C1: when generate_layout returns, no two distinct rooms of the output,
\* circulation rooms included, have rectangles whose interiors intersect.
C1_NoOverlapAtReturn ==
  Returned => \A i, j \in DOMAIN rooms : i < j => ~_overlap(rooms[i], rooms[j])

\* C2: when generate_layout returns, every room rectangle lies inside the
\* buildable bounds (5, 5, 35, 35).
C2_InsideBoundsAtReturn ==
  Returned => \A i \in DOMAIN rooms : _inside_bounds(rooms[i], BOUNDS)

\* C3: once a room is locked, no later step of generate_layout changes its
\* x, y, width or height.
C3_LockedNeverMoves ==
  [][\A i \in DOMAIN rooms :
       rooms[i].locked =>
         \A j \in DOMAIN rooms' :
           rooms'[j].room_id = rooms[i].room_id => SameRect(rooms'[j], rooms[i])]_vars

\* Two rooms are adjacent with a shared wall of at least MIN_SHARED_WALL:
\* on some side the facing walls are at most the attachment clearance apart
\* and run along each other for at least MIN_SHARED_WALL.
AdjacentWithSharedWall(a, b) ==
  LET ovx == Min2(a.x + a.width, b.x + b.width) - Max2(a.x, b.x)
      ovy == Min2(a.y + a.height, b.y + b.height) - Max2(a.y, b.y)
      Flush(gap) == 0 <= gap /\ gap <= ATTACH_GAP
  IN  \/ (Flush(b.x - (a.x + a.width)) \/ Flush(a.x - (b.x + b.width)))
         /\ ovy >= MIN_SHARED_WALL
      \/ (Flush(b.y - (a.y + a.height)) \/ Flush(a.y - (b.y + b.height)))
         /\ ovx >= MIN_SHARED_WALL

\* C4: in the returned layout of an input with a master bedroom and a master
\* bathroom the two are adjacent and share at least 2.5 units of wall.
C4_MasterPairAdjacentAtReturn ==
  (Returned /\ FirstIdx(rooms, IsMasterBed) # 0 /\ FirstIdx(rooms, IsMasterBath) # 0)
    => AdjacentWithSharedWall(rooms[FirstIdx(rooms, IsMasterBed)],
                              rooms[FirstIdx(rooms, IsMasterBath)])

LastOp == IF eops = <<>> THEN "none" ELSE eops[Len(eops)]

LastTwoOps(name) ==
  Len(eops) >= 2 /\ eops[Len(eops)] = name /\ eops[Len(eops) - 1] = name

\* The wall list the last operation was applied to.
PrevWalls == ehist[Len(ehist)]

\* C5: merge_walls applied to a list merge_walls returned gives the same list.
C5_MergeIdempotent == LastTwoOps("merge") => ewalls = PrevWalls

\* a is b with some elements left out, the others in their order.
RECURSIVE IsSublist(_, _)
IsSublist(a, b) ==
  IF a = <<>> THEN TRUE
  ELSE IF b = <<>> THEN FALSE
  ELSE IF Head(a) = Head(b) THEN IsSublist(Tail(a), Tail(b))
  ELSE IsSublist(a, Tail(b))

\* C6: subtracting the same outer list a second time changes nothing, and
\* the result of a subtraction is an order-preserving sublist of its input.
C6_SubtractIdempotent ==
  /\ LastTwoOps("subtract") => ewalls = PrevWalls
  /\ LastOp = "subtract" => IsSublist(ewalls, PrevWalls)

\* Two subtractions done, the first of which removed a segment (one whose
\* coordinates differ from the outer segment it matches after rounding
\* among them) and kept another.
C6_Witness ==
  /\ eops = <<"subtract", "subtract">>
  /\ ewalls # <<>>
  /\ \E i \in DOMAIN ehist[1] :
       /\ ehist[1][i] \notin Range(ewalls)
       /\ \A k \in DOMAIN eouter :
            <<ehist[1][i].x1, ehist[1][i].y1, ehist[1][i].x2, ehist[1][i].y2>>
              # <<eouter[k].x1, eouter[k].y1, eouter[k].x2, eouter[k].y2>>

\* C7: offset_outer_walls returns a list of the same length in which every
\* inner segment is in its place with the coordinates it had.
C7_OffsetKeepsInner ==
  LastOp = "offset" =>
    /\ Len(ewalls) = Len(PrevWalls)
    /\ \A i \in DOMAIN PrevWalls : PrevWalls[i].kind = "inner" => ewalls[i] = PrevWalls[i]

\* An offset applied to a list with an inner segment and an outer segment,
\* which moved.
C7_Witness ==
  /\ LastOp = "offset"
  /\ \E i \in DOMAIN PrevWalls : PrevWalls[i].kind = "inner"
  /\ \E i \in DOMAIN PrevWalls : PrevWalls[i].kind = "outer" /\ ewalls[i] # PrevWalls[i]

\* C8: generate_layout on an empty rooms list returns no rooms, no doors and
\* a quality_score of 110.
C8_EmptyPlanScores110 ==
  (Returned /\ plan.has_rooms /\ Len(plan.rooms) = 0)
    => Len(rooms) = 0 /\ Len(doors) = 0 /\ quality_score = 110

C8_Witness == Returned /\ plan.has_rooms /\ Len(plan.rooms) = 0

\* The two end points of a segment, whichever way it runs.
EndPoints(w) == {<<w.x1, w.y1>>, <<w.x2, w.y2>>}

\* The four sides of a rectangle as end point pairs.
RectSides(r) ==
  { {<<r.x, r.y>>, <<r.x, r.y + r.height>>},
    {<<r.x + r.width, r.y>>, <<r.x + r.width, r.y + r.height>>},
    {<<r.x, r.y>>, <<r.x + r.width, r.y>>},
    {<<r.x, r.y + r.height>>, <<r.x + r.width, r.y + r.height>>} }

OfKind(walls, kind) == {i \in DOMAIN walls : walls[i].kind = kind}

\* C9: build_envelope of a single non-circulation room on the grid returns
\* exactly four outer segments, one per side of the rectangle, and no inner.
C9_SingleRoomFourSegments ==
  (eops = <<"build">> /\ Len(elayout) = 1 /\ elayout[1].purpose # "circulation")
    => /\ Len(ewalls) = 4
       /\ OfKind(ewalls, "inner") = {}
       /\ {EndPoints(ewalls[i]) : i \in DOMAIN ewalls} = RectSides(elayout[1])

\* The edge two rectangles share in full, as an end point pair ({} if none).
SharedFullEdge(a, b) ==
  IF a.x + a.width = b.x /\ a.y = b.y /\ a.height = b.height
  THEN {<<b.x, b.y>>, <<b.x, b.y + b.height>>}
  ELSE IF a.y + a.height = b.y /\ a.x = b.x /\ a.width = b.width
  THEN {<<b.x, b.y>>, <<b.x + b.width, b.y>>}
  ELSE {}

\* C10: build_envelope of two non-circulation rectangles sharing one full
\* edge returns exactly one inner segment, on the shared edge.
C10_TwoRoomsOneInner ==
  (/\ eops = <<"build">>
   /\ Len(elayout) = 2
   /\ elayout[1].purpose # "circulation"
   /\ elayout[2].purpose # "circulation"
   /\ SharedFullEdge(elayout[1], elayout[2]) # {})
    => /\ Cardinality(OfKind(ewalls, "inner")) = 1
       /\ \A i \in OfKind(ewalls, "inner") :
            EndPoints(ewalls[i]) = SharedFullEdge(elayout[1], elayout[2])

\* The input is a 10x10 living room with an attach edge to an 8x8 kitchen.
IsScenarioA ==
  /\ plan.has_rooms
  /\ Len(plan.rooms) = 2
  /\ plan.rooms[1].purpose = "living"
  /\ plan.rooms[1].dimensions_ft = <<10 * Unit, 10 * Unit>>
  /\ \E k \in DOMAIN plan.rooms[1].adjacency_edges :
       /\ plan.rooms[1].adjacency_edges[k].type = "attach"
       /\ plan.rooms[1].adjacency_edges[k].to = plan.rooms[2].room_id
  /\ plan.rooms[2].purpose = "kitchen"
  /\ plan.rooms[2].dimensions_ft = <<8 * Unit, 8 * Unit>>

\* C11: for a 10x10 living room with an attach edge to an 8x8 kitchen the
\* returned layout has the kitchen sharing at least 2.5 units of wall with
\* the living room, and no two rectangles overlap.
C11_ScenarioAKitchenAttached ==
  (Returned /\ IsScenarioA)
    => /\ AdjacentWithSharedWall(rooms[FirstIdx(rooms, IsLiving)],
                                 rooms[FirstIdx(rooms, IsKitchen)])
       /\ \A i, j \in DOMAIN rooms : i < j => ~_overlap(rooms[i], rooms[j])

C11_Witness ==
  /\ Returned
  /\ IsScenarioA
  /\ \E k \in DOMAIN plan.rooms[1].adjacency_edges :
       plan.rooms[1].adjacency_edges[k].edge_preference = "rear"
  /\ rooms[FirstIdx(rooms, IsKitchen)].y > rooms[FirstIdx(rooms, IsLiving)].y

Tallied == pc = "tallied"

\* The numbers the score is made of: doors with the living room as an end
\* point, bedrooms sharing a wall with the kitchen, bathrooms sharing a wall
\* with the living room, circulation rooms.
LivingDoorCount ==
  Cardinality({d \in DOMAIN doors :
    \E i \in DOMAIN rooms :
      /\ i = FirstIdx(rooms, IsLiving)
      /\ rooms[i].room_id \in {doors[d].from_room, doors[d].to_room}})

KitchenBedroomCount ==
  Cardinality({i \in DOMAIN rooms :
    /\ rooms[i].purpose = "bedroom"
    /\ \E k \in DOMAIN rooms : k = FirstIdx(rooms, IsKitchen) /\ _shares_wall(rooms[k], rooms[i])})

LivingBathroomCount ==
  Cardinality({i \in DOMAIN rooms :
    /\ rooms[i].purpose = "bathroom"
    /\ \E l \in DOMAIN rooms : l = FirstIdx(rooms, IsLiving) /\ _shares_wall(rooms[l], rooms[i])})

CorridorCount == Cardinality({i \in DOMAIN rooms : rooms[i].purpose = "circulation"})

UnclampedScore ==
  100 - 10 * Max2(0, LivingDoorCount - 2) - 15 * KitchenBedroomCount
      - 10 * LivingBathroomCount - 5 * Max2(0, CorridorCount - 3) + Max2(0, 10 - Len(rooms))

\* The score of the same layout with one more door of the living room.
ScoreWithOneMoreLivingDoor ==
  score(rooms, Append(doors, Door("liv", "hall1", 30 * Unit, 6 * Unit, "vertical")))

\* C12 as stated: score returns max(0, 100 - 10*max(0, d-2) - 15*k - 10*b
\* - 5*max(0, c-3) + max(0, 10-n)), is never negative, and a living room with
\* 3 doors scores exactly 10 less than the same layout with 2 doors.
C12_ScoreFormulaTenLess ==
  Tallied =>
    /\ quality_score = Max2(0, UnclampedScore)
    /\ quality_score >= 0
    /\ LivingDoorCount = 2 => ScoreWithOneMoreLivingDoor = quality_score - 10

\* C12 amended: score returns the clamped formula and is never negative; a
\* living room with 3 doors scores exactly 10 less than the same layout with
\* 2 doors when that layout scores at least 10, and 0 when it scores less.
C12_ScoreFormula ==
  Tallied =>
    /\ quality_score = Max2(0, UnclampedScore)
    /\ quality_score >= 0
    /\ LivingDoorCount = 2 =>
         ScoreWithOneMoreLivingDoor = IF quality_score >= 10 THEN quality_score - 10 ELSE 0

\* A scored layout with two living room doors and a penalty of every kind
\* but the door one, scoring at least 10.
C12_Witness ==
  /\ Tallied
  /\ LivingDoorCount = 2
  /\ KitchenBedroomCount >= 2
  /\ LivingBathroomCount >= 1
  /\ CorridorCount > 3
  /\ quality_score >= 10
  /\ ScoreWithOneMoreLivingDoor = quality_score - 10

InResolve == pc \in {"resolve1", "resolve2"}

OverlapFree(rs) == \A i, j \in DOMAIN rs : i < j => ~_overlaps(rs[i], rs[j])

\* C13: resolve never starts a pass after MAX_ITERS = 200 of them, every pass
\* either is the last or adds one to the count, and the last hands the rooms
\* to the next phase without raising; a pass is the last one before the
\* 200th exactly when it met no overlapping pair (and then changed nothing),
\* and the 200th pass is the last one whatever overlaps remain.
C13_ResolveTerminates ==
  /\ [](InResolve => iter < MAX_ITERS)
  /\ [][InResolve =>
          /\ (pc' # pc) <=> (OverlapFree(rooms) \/ iter + 1 = MAX_ITERS)
          /\ pc' = pc => iter' = iter + 1
          /\ pc' # pc => pc' \in {"refine2", "merge"} /\ Len(rooms') = Len(rooms)
          /\ OverlapFree(rooms) => rooms' = rooms]_vars

\* 199 passes done and an overlap still there: the 200th pass is the last.
C13_Witness == InResolve /\ iter = MAX_ITERS - 1 /\ ~OverlapFree(rooms)

\* C14: for an input without a rooms field the first step of generate_layout
\* ends it in an error; no phase runs, and no rooms, doors or score exist.
C14_NoRoomsFieldIsAnError ==
  /\ [](~plan.has_rooms =>
          /\ pc \in {"construct", "error"}
          /\ rooms = <<>> /\ doors = <<>> /\ quality_score = -1)
  /\ [][(~plan.has_rooms /\ pc = "construct") => pc' = "error"]_vars

C14_Witness == ~plan.has_rooms /\ pc = "error"

\* Some room of the input has a width or height that is zero or negative.
HasNonPositiveDimension ==
  \E i \in DOMAIN plan.rooms :
    plan.rooms[i].dimensions_ft[1] <= 0 \/ plan.rooms[i].dimensions_ft[2] <= 0

\* C15: an input with a room whose dimensions_ft holds a zero or negative
\* value is rejected when the rooms are constructed: generate_layout ends in
\* an error and no phase runs on such a room.
C15_NonPositiveDimensionRejected ==
  HasNonPositiveDimension => pc \in {"construct", "error"}

IsPrimary(r) == IsLiving(r) \/ IsKitchen(r) \/ HasFoyer(r)

\* C16: the living room, the kitchen and the foyer are locked after the
\* first overlap resolution and before the second refiner pass starts, so
\* they are locked all through that pass.
C16_PrimaryLockedInSecondRefine ==
  pc = "refine2" => \A i \in DOMAIN rooms : IsPrimary(rooms[i]) => rooms[i].locked

\* How many rooms of the layout carry the id.
CountOfId(id) == Cardinality({j \in DOMAIN rooms : rooms[j].room_id = id})

\* The rectangle of outer contains the rectangle of inner.
Covers(outer, inner) ==
  /\ outer.x <= inner.x /\ inner.x + inner.width <= outer.x + outer.width
  /\ outer.y <= inner.y /\ inner.y + inner.height <= outer.y + outer.height

\* A step keeps room i, or is the corridor merge absorbing circulation room i
\* into a circulation room that then covers it.
KeptOrAbsorbed(i) ==
  \/ \E j \in DOMAIN rooms' :
       rooms'[j].room_id = rooms[i].room_id /\ rooms'[j].purpose = rooms[i].purpose
  \/ /\ pc = "merge"
     /\ rooms[i].purpose = "circulation"
     /\ \E j \in DOMAIN rooms' : rooms'[j].purpose = "circulation" /\ Covers(rooms'[j], rooms[i])

\* C17 as stated: every room of the input appears exactly once, under its
\* room_id, in the returned rooms; during the run a room disappears only by
\* being a circulation room absorbed by the corridor merge.
C17_EveryInputRoomReturned ==
  /\ [](Returned => \A i \in DOMAIN plan.rooms : CountOfId(plan.rooms[i].room_id) = 1)
  /\ [][\A i \in DOMAIN rooms : KeptOrAbsorbed(i)]_vars

\* C17 amended: every room of the input that is not a circulation room
\* appears exactly once, under its room_id, in the returned rooms, and a
\* circulation room of the input at most once; during the run a room
\* disappears only by being a circulation room absorbed by the corridor merge.
C17_NonCirculationRoomsReturned ==
  /\ [](Returned =>
          \A i \in DOMAIN plan.rooms :
            IF plan.rooms[i].purpose = "circulation"
            THEN CountOfId(plan.rooms[i].room_id) <= 1
            ELSE CountOfId(plan.rooms[i].room_id) = 1)
  /\ [][\A i \in DOMAIN rooms : KeptOrAbsorbed(i)]_vars

\* A returned layout of an input with a living room and two circulation
\* rooms, one of which the merge absorbed.
C17_Witness ==
  /\ Returned
  /\ \E i \in DOMAIN plan.rooms :
       plan.rooms[i].purpose = "circulation" /\ CountOfId(plan.rooms[i].room_id) = 0
  /\ \E i \in DOMAIN plan.rooms :
       plan.rooms[i].purpose = "living" /\ CountOfId(plan.rooms[i].room_id) = 1

\* The refiner is about to run an iteration of its loop.
InRefine == pc \in {"refine1", "refine2", "refine3"}

\* Room ti of after has the position it had in before.
SamePlace(before, after, ti) ==
  after[ti].x = before[ti].x /\ after[ti].y = before[ti].y

\* Some side on which a and m face each other over at least MIN_SHARED_WALL.
SharesWallWith(a, m) ==
  \/ /\ (m.x >= a.x + a.width \/ m.x + m.width <= a.x)
     /\ _wall_overlap(a, m, "right") >= MIN_SHARED_WALL
  \/ /\ (m.y >= a.y + a.height \/ m.y + m.height <= a.y)
     /\ _wall_overlap(a, m, "top") >= MIN_SHARED_WALL

\* What the refiner may do with one attachment: leave the target where it
\* is, or put it inside the bounds, clear of every room but the anchor, on a
\* wall shared with the anchor.
SnapIsSafe(before, att, bnds) ==
  LET after == SnapOne(before, att, bnds)
      ai == att[2]
      ti == att[3]
  IN  \/ SamePlace(before, after, ti)
      \/ /\ _inside_bounds(after[ti], bnds)
         /\ ~_overlaps_any(after[ti], ti, after, ai)
         /\ SharesWallWith(after[ai], after[ti])

RECURSIVE AllSnapsSafe(_, _, _, _)
AllSnapsSafe(rs, atts, k, bnds) ==
  IF k > Len(atts) THEN TRUE
  ELSE /\ SnapIsSafe(rs, atts[k], bnds)
       /\ AllSnapsSafe(SnapOne(rs, atts[k], bnds), atts, k + 1, bnds)

\* C18: each attach edge the Adjacency Refiner processes leaves its target
\* where it was or at a position inside the buildable bounds, overlapping no
\* room other than the anchor and sharing at least 2.5 units of wall with the
\* anchor, also for coordinates and sizes off the 0.5 grid.
C18_SnapTargetIsValid ==
  InRefine =>
    LET forced == ForceMasterPair(rooms)
    IN  AllSnapsSafe(forced, SortedAttachments(forced), 1, BOUNDS)

\* The resolver is about to handle the pair, and the two rooms overlap.
OverlappingPair == pc = "pair" /\ _overlaps(rooms[1], rooms[2])

\* The pairs the resolver is to leave alone: two circulation rooms, two locked
\* rooms, the master bedroom with the master bathroom.
IsSkipPair(a, b) ==
  \/ a.purpose = "circulation" /\ b.purpose = "circulation"
  \/ a.locked /\ b.locked
  \/ IsMasterBed(a) /\ IsMasterBath(b)
  \/ IsMasterBath(a) /\ IsMasterBed(b)

\* C19: handling an overlapping pair of two circulation rooms, of two locked
\* rooms, or of the master bedroom and the master bathroom changes neither
\* room's position or size.
C19_SkipPairsUntouched ==
  [][(OverlappingPair /\ IsSkipPair(rooms[1], rooms[2])) => rooms' = rooms]_vars

\* The master bathroom met before the master bedroom, overlapping, not both
\* locked, after the pair was handled.
C19_Witness ==
  /\ pc = "paired"
  /\ _overlaps(rooms[1], rooms[2])
  /\ IsMasterBath(rooms[1]) /\ IsMasterBed(rooms[2])
  /\ ~(rooms[1].locked /\ rooms[2].locked)

\* Room k of the pair is locked and the other one is not.
OnlyLocked(k) == rooms[k].locked /\ ~rooms[3 - k].locked

\* C20: when the resolver handles an overlapping pair (not one it skips) in
\* which exactly one room is locked, the locked room keeps its position and
\* the unlocked room is relocated, whatever the purposes of the two rooms.
C20_UnlockedRoomIsPushed ==
  [][\A k \in 1..2 :
       (OverlappingPair /\ OnlyLocked(k) /\ ~IsSkipPair(rooms[1], rooms[2])) =>
         /\ rooms'[k] = rooms[k]
         /\ ~SamePlace(rooms, rooms', 3 - k)]_vars

\* The smaller of the two penetrations of mover m into anchor a along x, along y.
PenetrationX(m, a) == Min2(a.x + a.width - m.x, m.x + m.width - a.x)

PenetrationY(m, a) == Min2(a.y + a.height - m.y, m.y + m.height - a.y)

\* m stands exactly CLEARANCE clear of a along x, along y.
ClearAlongX(m, a) == m.x = a.x + a.width + CLEARANCE \/ m.x + m.width = a.x - CLEARANCE

ClearAlongY(m, a) == m.y = a.y + a.height + CLEARANCE \/ m.y + m.height = a.y - CLEARANCE

\* C21: on an overlapping pair _push_away changes exactly one coordinate of
\* the mover, on the axis of minimum penetration, leaves the anchor and both
\* sizes unchanged, and leaves the mover exactly 1.0 clear of the anchor on
\* that axis, so that the two rectangles no longer overlap.
C21_PushAwaySeparates ==
  [][(pc = "push" /\ _overlaps(rooms[1], rooms[2])) =>
       /\ rooms'[2] = rooms[2]
       /\ rooms'[1].width = rooms[1].width /\ rooms'[1].height = rooms[1].height
       /\ \/ /\ rooms'[1].x # rooms[1].x /\ rooms'[1].y = rooms[1].y
             /\ PenetrationX(rooms[1], rooms[2]) <= PenetrationY(rooms[1], rooms[2])
             /\ ClearAlongX(rooms'[1], rooms'[2])
          \/ /\ rooms'[1].y # rooms[1].y /\ rooms'[1].x = rooms[1].x
             /\ PenetrationY(rooms[1], rooms[2]) <= PenetrationX(rooms[1], rooms[2])
             /\ ClearAlongY(rooms'[1], rooms'[2])
       /\ ~_overlaps(rooms'[1], rooms'[2])]_vars

\* A mover pushed up: it ends 1.0 above the anchor, still within the anchor's
\* span along x.
C21_Witness ==
  /\ pc = "pushed"
  /\ rooms[1].y + rooms[1].height = rooms[2].y - CLEARANCE
  /\ rooms[1].x > rooms[2].x /\ rooms[1].x + rooms[1].width < rooms[2].x + rooms[2].width

\* The id make_corridor gives the corridor from room ida to room idb.
CorridorId(ida, idb) == "corridor_" \o ida \o "_" \o idb

\* The corridors of the layout made for the unordered pair of ids.
CorridorsOfPair(ida, idb) ==
  {k \in DOMAIN rooms :
     /\ rooms[k].purpose = "circulation"
     /\ rooms[k].room_id \in {CorridorId(ida, idb), CorridorId(idb, ida)}}

\* CorridorInserter.insert has just returned.
Inserted == pc = "resolve2" /\ iter = 0

\* C22: CorridorInserter.insert adds at most one corridor for each unordered
\* pair of rooms, the unconditional living/master-bedroom corridor counted
\* together with the corridors made from adjacency edges.
C22_OneCorridorPerPair ==
  Inserted =>
    \A i, j \in DOMAIN plan.rooms :
      Cardinality(CorridorsOfPair(plan.rooms[i].room_id, plan.rooms[j].room_id)) <= 1

\* The rooms of rs that are not circulation rooms, in their order.
NonCirculation(rs) ==
  LET NotCirc(r) == r.purpose # "circulation"
  IN  SelectSeq(rs, NotCirc)

\* The locking step after CorridorMerger.merge has just run.
MergedAndLocked == pc = "refine3" /\ iter = 0

\* A step leaves the rooms that are not circulation rooms as they are: the
\* same rooms in the same order with the same rectangles.
NonCirculationKept ==
  /\ Len(NonCirculation(rooms')) = Len(NonCirculation(rooms))
  /\ \A i \in DOMAIN NonCirculation(rooms) :
       /\ NonCirculation(rooms')[i].room_id = NonCirculation(rooms)[i].room_id
       /\ SameRect(NonCirculation(rooms')[i], NonCirculation(rooms)[i])

\* C23: after CorridorMerger.merge and the locking step that follows it,
\* every circulation room is at least 4 wide and 4 high and is locked, and
\* every room that is not a circulation room has the rectangle it had before
\* the merge.
C23_CorridorsFlooredAndLocked ==
  /\ [](MergedAndLocked =>
          \A i \in DOMAIN rooms :
            rooms[i].purpose = "circulation" =>
              /\ rooms[i].width >= 4 * Unit
              /\ rooms[i].height >= 4 * Unit
              /\ rooms[i].locked)
  /\ [][(pc = "merge" \/ pc = "lockcirc") => NonCirculationKept]_vars

\* A layout after merge and locking in which a circulation room that came in
\* less than 4 wide stands, locked, at the floor of 4, next to a room that is
\* not a circulation room.
C23_Witness ==
  /\ MergedAndLocked
  /\ \E i, j \in DOMAIN rooms, k \in DOMAIN plan.rooms :
       /\ rooms[i].purpose = "circulation" /\ rooms[i].room_id = plan.rooms[k].room_id
       /\ plan.rooms[k].dimensions_ft[1] < 4 * Unit /\ rooms[i].width = 4 * Unit
       /\ rooms[i].locked
       /\ rooms[j].purpose # "circulation"

\* CorridorMerger.merge has just returned.
Merged == pc = "lockcirc"

\* C24: CorridorMerger.merge reaches a fixed point: in its result no two
\* circulation rooms satisfy _can_merge, and merging the result again changes
\* nothing.
C24_MergeIsFixedPoint ==
  Merged =>
    /\ \A i, j \in DOMAIN rooms : i # j => ~_can_merge(rooms[i], rooms[j])
    /\ merge(rooms) = rooms

\* The span two rooms share along y, along x.
SpanY(a, b) == Min2(a.y + a.height, b.y + b.height) - Max2(a.y, b.y)

SpanX(a, b) == Min2(a.x + a.width, b.x + b.width) - Max2(a.x, b.x)

\* v and w are within the door tolerance of 0.2 of each other.
WithinDoorTol(v, w) == 5 * Abs(v - w) < Unit

\* A left/right (a top/bottom) wall of a faces one of b, collinear within 0.2,
\* over at least 2 units.
FacingLeftRight(a, b) ==
  /\ WithinDoorTol(a.x + a.width, b.x) \/ WithinDoorTol(a.x, b.x + b.width)
  /\ SpanY(a, b) >= 2 * Unit

FacingTopBottom(a, b) ==
  /\ WithinDoorTol(a.y + a.height, b.y) \/ WithinDoorTol(a.y, b.y + b.height)
  /\ SpanX(a, b) >= 2 * Unit

\* The pairs that get no door: two circulation rooms, two rooms of zone
\* private of which neither is a bathroom.
DoorExcluded(a, b) ==
  \/ a.purpose = "circulation" /\ b.purpose = "circulation"
  \/ a.zone = "private" /\ b.zone = "private" /\ a.purpose # "bathroom" /\ b.purpose # "bathroom"

\* The door d stands at the midpoint of the span a and b share, on a's wall,
\* with the orientation of that wall.
DoorAtMidpoint(d, a, b) ==
  \/ /\ d.orientation = "vertical" /\ FacingLeftRight(a, b)
     /\ d.y = Max2(a.y, b.y) + Half(SpanY(a, b))
     /\ d.x \in {a.x, a.x + a.width}
  \/ /\ d.orientation = "horizontal" /\ FacingTopBottom(a, b)
     /\ d.x = Max2(a.x, b.x) + Half(SpanX(a, b))
     /\ d.y \in {a.y, a.y + a.height}

\* C25: DoorPlacer.place emits exactly one door for a pair if and only if
\* some pairing of their facing walls is collinear within 0.2 and overlaps by
\* at least 2 units and the pair is not excluded, and no door otherwise; the
\* door lies at the midpoint of the overlapping span, vertical for left/right
\* walls and horizontal for top/bottom walls.
C25_DoorIffFacingWalls ==
  pc = "doored" =>
    IF (FacingLeftRight(rooms[1], rooms[2]) \/ FacingTopBottom(rooms[1], rooms[2]))
       /\ ~DoorExcluded(rooms[1], rooms[2])
    THEN Len(doors) = 1 /\ DoorAtMidpoint(doors[1], rooms[1], rooms[2])
    ELSE doors = <<>>

\* The first room the expansion loop grows: the first in priority order that
\* is neither a bathroom nor a circulation room; 0 when there is none.
FirstGrower(rs) ==
  LET order == ByPriority(rs, DOMAIN rs)
      Grows(k) == rs[order[k]].purpose \notin {"bathroom", "circulation"}
  IN  IF \E k \in DOMAIN order : Grows(k)
      THEN order[CHOOSE k \in DOMAIN order : Grows(k) /\ \A m \in 1..(k - 1) : ~Grows(m)]
      ELSE 0

\* Room i of rs, made dx wider, stays inside the bounds and keeps 0.5
\* clearance from every other room that is not a circulation room.
MayGrowWider(rs, i, bnds, dx) ==
  LET x1 == rs[i].x
      y1 == rs[i].y
      x2 == rs[i].x + rs[i].width + dx
      y2 == rs[i].y + rs[i].height
  IN  /\ bnds[1] <= x1 /\ bnds[2] <= y1 /\ x2 <= bnds[3] /\ y2 <= bnds[4]
      /\ \A k \in DOMAIN rs :
           (k # i /\ rs[k].purpose # "circulation") =>
             \/ x2 + Half(Unit) <= rs[k].x
             \/ x1 >= rs[k].x + rs[k].width + Half(Unit)
             \/ y2 + Half(Unit) <= rs[k].y
             \/ y1 >= rs[k].y + rs[k].height + Half(Unit)

\* C26: in the expansion phase a growth step of 0.5 is taken exactly when the
\* grown rectangle stays inside the bounds and keeps 0.5 clearance from every
\* other room that is not a circulation room; a circulation room never blocks
\* a step.  Stated for the first step of the phase, the widening of the first
\* room of the loop.
C26_GrowthStepIffClear ==
  [][(pc = "expand" /\ FirstGrower(rooms) # 0) =>
       ((rooms'[FirstGrower(rooms)].width > rooms[FirstGrower(rooms)].width)
          <=> MayGrowWider(rooms, FirstGrower(rooms), BOUNDS, RESIZE_STEP))]_vars

\* The wall w runs through the interior of the room r.
RunsThrough(w, r) ==
  \/ /\ w.x1 = w.x2
     /\ r.x < w.x1 /\ w.x1 < r.x + r.width
     /\ Min2(Max2(w.y1, w.y2), r.y + r.height) > Max2(Min2(w.y1, w.y2), r.y)
  \/ /\ w.y1 = w.y2
     /\ r.y < w.y1 /\ w.y1 < r.y + r.height
     /\ Min2(Max2(w.x1, w.x2), r.x + r.width) > Max2(Min2(w.x1, w.x2), r.x)

\* offset_outer_walls has just been applied to the walls build_envelope returned.
BuiltAndOffset == eops = <<"build", "offset">>

\* C27: offset_outer_walls moves every outer wall of the envelope by half the
\* thickness toward the outside: afterwards no outer wall runs through the
\* interior of a room that is not a circulation room.
C27_OffsetWallsOutside ==
  BuiltAndOffset =>
    /\ \A i \in DOMAIN ewalls :
         PrevWalls[i].kind = "outer" =>
           \/ /\ Abs(ewalls[i].x1 - PrevWalls[i].x1) = WALL_OFFSET
              /\ ewalls[i].x2 - PrevWalls[i].x2 = ewalls[i].x1 - PrevWalls[i].x1
              /\ ewalls[i].y1 = PrevWalls[i].y1 /\ ewalls[i].y2 = PrevWalls[i].y2
              /\ PrevWalls[i].x1 = PrevWalls[i].x2
           \/ /\ Abs(ewalls[i].y1 - PrevWalls[i].y1) = WALL_OFFSET
              /\ ewalls[i].y2 - PrevWalls[i].y2 = ewalls[i].y1 - PrevWalls[i].y1
              /\ ewalls[i].x1 = PrevWalls[i].x1 /\ ewalls[i].x2 = PrevWalls[i].x2
              /\ PrevWalls[i].y1 = PrevWalls[i].y2
    /\ \A i \in DOMAIN ewalls, k \in DOMAIN elayout :
         (ewalls[i].kind = "outer" /\ elayout[k].purpose # "circulation")
           => ~RunsThrough(ewalls[i], elayout[k])

\* ImprovedZonePlacer.place has just returned.
Placed == pc = "refine1" /\ iter = 0

\* C28: after ImprovedZonePlacer.place a foyer of the input sits at the
\* buildable origin corner (x0 + 1, y0 + 1), and a kitchen that comes with it
\* directly below it at (foyer.x, foyer.y + foyer.height + 1), whether or not
\* there is a living room.
C28_FoyerAtOriginCorner ==
  (Placed /\ FirstIdx(rooms, HasFoyer) # 0) =>
    LET foyer == rooms[FirstIdx(rooms, HasFoyer)]
        ki == FirstIdx(rooms, IsKitchen)
    IN  /\ foyer.x = PlacerX0 + Unit
        /\ foyer.y = PlacerY0 + Unit
        /\ ki # 0 => /\ rooms[ki].x = foyer.x
                     /\ rooms[ki].y = foyer.y + foyer.height + Unit

\* StrictAdjacencyRefiner.refine has just returned.
Refined ==
  \/ pc = "resolve1" /\ iter = 0
  \/ pc = "lock"
  \/ pc = "doors"

\* ba stands in right-side attachment to mb, each coordinate up to the two
\* grid snaps of at most 0.25 that separate it from the forced position.
RightAttached(mb, ba) ==
  /\ Abs(ba.x - (mb.x + mb.width + ATTACH_GAP)) <= GRID
  /\ Abs(ba.y - mb.y) <= GRID

\* C29: when refine returns for rooms with a master bedroom and a master
\* bathroom, the bathroom is locked and in right-side attachment to the
\* bedroom (x = bedroom.x + bedroom.width + 0.5, y = bedroom.y, up to the grid
\* snap), also when the bedroom is itself the target of an attach edge.
C29_MasterBathAttachedAfterRefine ==
  (Refined /\ FirstIdx(rooms, IsMasterBed) # 0 /\ FirstIdx(rooms, IsMasterBath) # 0) =>
    /\ rooms[FirstIdx(rooms, IsMasterBath)].locked
    /\ RightAttached(rooms[FirstIdx(rooms, IsMasterBed)], rooms[FirstIdx(rooms, IsMasterBath)])

\* The 0.2 tolerance of DoorPlacer._shared_wall.
DoorTol == Unit \div 5

\* The point (x, y) lies within DoorTol of one of the four sides of r.
OnBoundary(x, y, r) ==
  \/ /\ \/ Abs(x - r.x) <= DoorTol
        \/ Abs(x - (r.x + r.width)) <= DoorTol
     /\ r.y - DoorTol <= y
     /\ y <= r.y + r.height + DoorTol
  \/ /\ \/ Abs(y - r.y) <= DoorTol
        \/ Abs(y - (r.y + r.height)) <= DoorTol
     /\ r.x - DoorTol <= x
     /\ x <= r.x + r.width + DoorTol

\* The door d lies on the boundary of every room of rs that carries id.
DoorOnRoom(d, id, rs) ==
  \A i \in DOMAIN rs : rs[i].room_id = id => OnBoundary(d.x, d.y, rs[i])

\* C30: every door of the returned layout lies, within the 0.2 door tolerance,
\* on the boundary of both its from-room and its to-room as the rooms stand in
\* the returned layout, after expansion, clamp_to_bounds and polish_layout.
C30_DoorsOnReturnedWalls ==
  Returned => \A k \in DOMAIN doors :
                /\ DoorOnRoom(doors[k], doors[k].from_room, rooms)
                /\ DoorOnRoom(doors[k], doors[k].to_room, rooms)

====
